---- MODULE Spec2Model ----
(***************************************************************************)
(* A state-machine model of the WebSocket reverse proxy.                   *)
(*                                                                         *)
(*   WebsocketProxy  the proxy with the middleware pipeline                *)
(*                   (src/src/tests/websocket.server.test.ts:353-716)      *)
(*   WsProxy         the proxy without a pipeline                          *)
(*                   (src/src/websocket/websocket.proxy.ts:100-304)        *)
(*   WsServer        the inbound side (src/src/websocket/websocket.server.ts)*)
(*   WsClient        the outbound side (src/unnamed/part_001)              *)
(*                                                                         *)
(* One action is one task of the JavaScript event loop: a socket callback  *)
(* or a timer, run together with the promise continuations it makes ready. *)
(* A middleware that awaits something outside the pipeline (a timer, an    *)
(* I/O call) ends the task; its continuation is a later task (Resume).     *)
(* The continuation of an await inside the pipeline is a promise job of    *)
(* the same task; the jobs of a task run first in, first out.              *)
(***************************************************************************)
EXTENDS Integers, Sequences, FiniteSets, TLC

\* ---------------------------------------------------------------- bounds
NSessions == 2
MaxRuns == 2
MaxMw == 2

Sessions == 1..NSessions

\* ------------------------------------------------------------ JS values
\* A payload is a string or an ArrayBuffer; Undefined is the JS undefined.
Str(v) == [t |-> "string", v |-> v]
Buf(v) == [t |-> "buffer", v |-> v]
Undefined == [t |-> "undefined", v |-> ""]
Payloads == {Str("a"), Str("b")}

\* x.data for a payload x: a string or an ArrayBuffer has no such property.
PropData(x) == Undefined

UPSTREAM == "upstream"
DOWNSTREAM == "downstream"

createMessage(data) ==
    [type |-> IF data.t = "string" THEN "text" ELSE "binary", data |-> data]

\* ----------------------------------------------------------- middlewares
\* A middleware is a function (context, next); its body is a list of steps:
\*   "next"        await next()
\*   "nextNoAwait" next() called, the promise not awaited nor returned
\*   "drop"        context.drop()
\*   "set"         context.message.data = <a new string>
\*   "wait"        await of something outside the pipeline (timer, I/O)
\*   "throw"       throw
\*   "preview"     logger's read of context.message.data.substring or
\*                 .byteLength: a TypeError when the data is undefined
\*   "json:..."    the try/catch of jsonTransform with one of the transformers
\* and the end of the list is the return. filter is the guard that
\* useUpstream/useDownstream/useText/useBinary/useIf wrap around it.
MwPass == [filter |-> "any", body |-> <<"next">>]
MwStop == [filter |-> "any", body |-> <<>>]
MwDrop == [filter |-> "any", body |-> <<"drop">>]
MwThrow == [filter |-> "any", body |-> <<"throw">>]
MwDetach == [filter |-> "any", body |-> <<"nextNoAwait">>]
MwSlow == [filter |-> "any", body |-> <<"wait", "next">>]
MwSlowDrop == [filter |-> "any", body |-> <<"wait", "drop">>]
MwSet == [filter |-> "any", body |-> <<"set", "next">>]
MwUpDrop == [filter |-> UPSTREAM, body |-> <<"drop">>]
MwDropNext == [filter |-> "any", body |-> <<"drop", "next">>]
MwDownSet == [filter |-> DOWNSTREAM, body |-> <<"set", "next">>]
MwTextSet == [filter |-> "text", body |-> <<"set", "next">>]
MwBinDrop == [filter |-> "binary", body |-> <<"drop">>]
\* useIf(ctx => ctx.sessionId === <the first session>, ...): a middleware that
\* awaits something outside the pipeline for the messages of that session.
MwStuck == [filter |-> "session1", body |-> <<"wait", "next">>]

Catalogue ==
    {MwPass, MwStop, MwDrop, MwThrow, MwDetach, MwSlow, MwSlowDrop, MwSet, MwUpDrop,
     MwDropNext, MwDownSet, MwTextSet, MwBinDrop}

\* Middlewares with code after their "await next()".
MwPost == [filter |-> "any", body |-> <<"next", "set">>]
MwPostSlow == [filter |-> "any", body |-> <<"next", "wait", "set">>]

\* useIf(ctx => ctx.sessionId === <the first session>, <MwSet>).
MwIfSet == [filter |-> "session1", body |-> <<"set", "next">>]

\* The middlewares registered where middlewares are added and removed while
\* a message is suspended: all of them call next().
ChangeCatalogue == {MwSlow, MwSet}

\* The registrations removeMiddleware is tried on: use(m), useUpstream(m),
\* useDownstream(m), useText(m), useBinary(m) and useIf(cond, m).
RemoveCatalogue == {MwSet, MwDrop, MwDownSet, MwUpDrop, MwTextSet, MwBinDrop, MwIfSet}

\* The function a registration was made with: the middleware itself for
\* use, the wrapped middleware for the others.
Inner(m) == [filter |-> "any", body |-> m.body]

\* A middleware that calls next() a second time when the first has returned.
MwTwice == [filter |-> "any", body |-> <<"next", "next">>]

\* The middlewares registered where next() is called twice.
TwiceCatalogue == {MwTwice, MwStop, MwPass, MwDrop}

\* The middlewares registered where the code after next() is looked at.
PostCatalogue == {MwPost, MwPostSlow, MwPass, MwSlow, MwDrop, MwSlowDrop, MwDetach}

\* The middlewares registered where two sessions run side by side.
CoreCatalogue == {MwSlow, MwDrop, MwThrow}

\* The middlewares registered where one session has a stuck middleware.
StuckCatalogue == {MwStuck, MwPass}

Transformed == Str("x")

\* ------------------------------------------------------------------ JSON
\* The texts the messages of the built-in middlewares are taken from: two
\* spellings of the number 1, a text that is not JSON, an auth message.
AuthText == "{\"type\":\"auth\",\"token\":\"t\"}"
JsNumber(v) == [t |-> "number", v |-> v]
AuthObject == [t |-> "object", v |-> "auth"]

\* JSON.parse(x): ok = FALSE is the SyntaxError. A value that is not a string
\* is parsed as String(x), "undefined" or "[object ArrayBuffer]".
JSONparse(x) ==
    IF x.t = "string" /\ x.v \in {"1", " 1"} THEN [ok |-> TRUE, val |-> JsNumber("1")]
    ELSE IF x.t = "string" /\ x.v = AuthText THEN [ok |-> TRUE, val |-> AuthObject]
    ELSE [ok |-> FALSE, val |-> Undefined]

\* JSON.stringify(val): undefined for undefined.
JSONstringify(val) ==
    CASE val.t = "number" -> Str(val.v)
      [] val.t = "object" -> Str(AuthText)
      [] OTHER -> Undefined

\* The transformers given to jsonTransform: x => x, x => 2, x => undefined
\* and one that throws.
JsonOps == {"json:x", "json:2", "json:undefined", "json:throw"}

transformer(op, val) ==
    CASE op = "json:x" -> [ok |-> TRUE, val |-> val]
      [] op = "json:2" -> [ok |-> TRUE, val |-> JsNumber("2")]
      [] op = "json:undefined" -> [ok |-> TRUE, val |-> Undefined]
      [] OTHER -> [ok |-> FALSE, val |-> Undefined]

\* jsonTransform without its try/catch.
jsonTransform_NoCatch(data, op) ==
    LET parsed == JSONparse(data)
        made == transformer(op, parsed.val)
    IN  IF parsed.ok /\ made.ok
        THEN [threw |-> FALSE, data |-> JSONstringify(made.val)]
        ELSE [threw |-> TRUE, data |-> data]

\* The try block of jsonTransform and its empty catch: what it leaves in
\* context.message.data, and whether it throws.
jsonTransform(data, op) ==
    LET parsed == JSONparse(data)
        made == transformer(op, parsed.val)
    IN  IF parsed.ok /\ made.ok
        THEN [threw |-> FALSE, data |-> JSONstringify(made.val)]
        ELSE [threw |-> FALSE, data |-> data]

isUpstream(ctx) == ctx.dir = UPSTREAM
isDownstream(ctx) == ctx.dir = DOWNSTREAM
isTextMessage(ctx) == ctx.msg.type = "text"
isBinaryMessage(ctx) == ctx.msg.type = "binary"

FilterMatches(f, ctx) ==
    CASE f = "any" -> TRUE
      [] f = UPSTREAM -> isUpstream(ctx)
      [] f = DOWNSTREAM -> isDownstream(ctx)
      [] f = "text" -> isTextMessage(ctx)
      [] f = "binary" -> isBinaryMessage(ctx)
      [] f = "session1" -> ctx.sid = 1

\* A wrapper that calls the wrapped middleware whatever the context is.
Body_NoGuard(m, ctx) == m.body

\* The steps middleware m takes for context ctx: the wrapped middleware when
\* the guard matches, and "return next()" when it does not.
Body(m, ctx) == IF FilterMatches(m.filter, ctx) THEN m.body ELSE <<"next">>

\* ---------------------------------------------------------------- routes
\* A string is the sequence of its characters. A route pattern is a string;
\* a request URL (req.url, always absolute) is its pathname and its search; a
\* target is a string that "new URL(target)" parses into origin, pathname and
\* search, or one it does not parse (ok = FALSE).
Chars == {"/", ":", "a"}
MaxPath == 4

RECURSIVE StringsUpTo(_)
StringsUpTo(n) ==
    IF n = 0 THEN {<<>>}
    ELSE LET shorter == StringsUpTo(n - 1)
         IN  shorter \cup {Append(x, c) : x \in {y \in shorter : Len(y) = n - 1}, c \in Chars}

\* The strings of at most MaxPath characters that start with '/'.
Paths == {x \in StringsUpTo(MaxPath) : x # <<>> /\ x[1] = "/"}

Url(path, search) == [path |-> path, search |-> search]
Target(origin, path) == [ok |-> TRUE, origin |-> origin, path |-> path]
Malformed == [ok |-> FALSE, origin |-> "", path |-> <<>>]

\* s.split('/')
RECURSIVE SplitAcc(_, _, _)
SplitAcc(s, acc, cur) ==
    IF s = <<>> THEN Append(acc, cur)
    ELSE IF Head(s) = "/" THEN SplitAcc(Tail(s), Append(acc, cur), <<>>)
    ELSE SplitAcc(Tail(s), acc, Append(cur, Head(s)))

split(s) == SplitAcc(s, <<>>, <<>>)

\* parts.filter(Boolean)
filterBoolean(parts) == SelectSeq(parts, LAMBDA x : x # <<>>)

\* parts.join('/')
RECURSIVE join(_)
join(parts) ==
    IF parts = <<>> THEN <<>>
    ELSE IF Len(parts) = 1 THEN parts[1]
    ELSE parts[1] \o <<"/">> \o join(Tail(parts))

\* part.startsWith(':')
startsWithColon(part) == part # <<>> /\ part[1] = ":"

\* The number of '/' a string starts with.
RECURSIVE LeadingSlashes(_)
LeadingSlashes(s) ==
    IF s = <<>> \/ Head(s) # "/" THEN 0 ELSE 1 + LeadingSlashes(Tail(s))

\* A host of the URL parser, over Chars: not empty, and a ':' only as its
\* last character (an empty port).
HostOK(h) ==
    /\ h # <<>>
    /\ \A i \in 1..Len(h) : h[i] = ":" => (i > 1 /\ i = Len(h))

\* new URL(pattern, 'http://localhost') for a pattern that starts with '/':
\* one leading '/' makes it a path; two or more make what follows them the
\* host, and the pathname is what follows the host. ok = FALSE: it throws.
RouteUrl(pattern) ==
    LET n == LeadingSlashes(pattern) IN
    IF n < 2 THEN [ok |-> TRUE, pathname |-> pattern]
    ELSE LET rest == SubSeq(pattern, n + 1, Len(pattern))
             cut == IF \E i \in 1..Len(rest) : rest[i] = "/"
                    THEN CHOOSE i \in 1..Len(rest) :
                             rest[i] = "/" /\ \A j \in 1..(i - 1) : rest[j] # "/"
                    ELSE Len(rest) + 1
             host == SubSeq(rest, 1, cut - 1)
             path == SubSeq(rest, cut, Len(rest))
         IN  IF ~HostOK(host) THEN [ok |-> FALSE, pathname |-> <<>>]
             ELSE [ok |-> TRUE, pathname |-> IF path = <<>> THEN <<"/">> ELSE path]

\* A metadata bag is the set of its <<key, value>> entries; the metadata of
\* a route registered without one is undefined.
Metadata(entries) == [defined |-> TRUE, entries |-> entries]
NoMetadata == [defined |-> FALSE, entries |-> {}]
RouteMetadata == Metadata({<<"tenant", "t">>})

\* The entry route(pattern, target, metadata) stores.
RouteConfigWith(pattern, target, metadata) ==
    [pattern |-> pattern, target |-> target, metadata |-> metadata]

RouteConfig(pattern, target) == RouteConfigWith(pattern, target, NoMetadata)

Up == "ws://up"
RouteTable == <<RouteConfig(<<"/", "a", "/", ":", "a">>, Target(Up, <<"/", ":", "a">>))>>
Urls == {Url(<<"/", "a", "/", ":">>, <<"?", "q">>), Url(<<"/", "a">>, <<>>)}

\* routeParts.every((part, index) => part === pathParts[index] || part.startsWith(':'))
PartsMatch(routeParts, pathParts) ==
    /\ Len(pathParts) = Len(routeParts)
    /\ \A i \in 1..Len(routeParts) :
           routeParts[i] = pathParts[i] \/ startsWithColon(routeParts[i])

\* The loop of findRoute from entry i on: the index of the first entry that
\* matches, 0 for null, -1 when "new URL(pattern, ...)" throws on the way.
RECURSIVE FirstMatch(_, _, _)
FirstMatch(rs, i, url) ==
    IF i > Len(rs) THEN 0
    ELSE LET routeUrl == RouteUrl(rs[i].pattern) IN
         IF ~routeUrl.ok THEN -1
         ELSE IF PartsMatch(filterBoolean(split(routeUrl.pathname)),
                            filterBoolean(split(url.path)))
         THEN i
         ELSE FirstMatch(rs, i + 1, url)

findRoute(rs, url) == FirstMatch(rs, 1, url)

\* The names of the functions a plain object inherits from Object.prototype.
ObjectPrototypeFunctions ==
    {<<"c", "o", "n", "s", "t", "r", "u", "c", "t", "o", "r">>,
     <<"h", "a", "s", "O", "w", "n", "P", "r", "o", "p", "e", "r", "t", "y">>,
     <<"i", "s", "P", "r", "o", "t", "o", "t", "y", "p", "e", "O", "f">>,
     <<"p", "r", "o", "p", "e", "r", "t", "y", "I", "s", "E", "n", "u", "m", "e", "r", "a", "b", "l", "e">>,
     <<"t", "o", "L", "o", "c", "a", "l", "e", "S", "t", "r", "i", "n", "g">>,
     <<"t", "o", "S", "t", "r", "i", "n", "g">>,
     <<"v", "a", "l", "u", "e", "O", "f">>,
     <<"_", "_", "d", "e", "f", "i", "n", "e", "G", "e", "t", "t", "e", "r", "_", "_">>,
     <<"_", "_", "d", "e", "f", "i", "n", "e", "S", "e", "t", "t", "e", "r", "_", "_">>,
     <<"_", "_", "l", "o", "o", "k", "u", "p", "G", "e", "t", "t", "e", "r", "_", "_">>,
     <<"_", "_", "l", "o", "o", "k", "u", "p", "S", "e", "t", "t", "e", "r", "_", "_">>}

\* '__proto__', the inherited accessor that gives Object.prototype itself.
Proto == <<"_", "_", "p", "r", "o", "t", "o", "_", "_">>

\* 'constructor': ({}).constructor is the function Object.
Constructor == <<"c", "o", "n", "s", "t", "r", "u", "c", "t", "o", "r">>

\* obj[part] is truthy for an object that has no own property part.
Inherited(part) == part \in ObjectPrototypeFunctions \/ part = Proto

\* What join('/') makes of that inherited value: the text of a built-in
\* function (its white space is the engine's), '[object Object]' for
\* Object.prototype.
InheritedText(part) ==
    IF part = Proto THEN <<"[", "o", "b", "j", "e", "c", "t", " ", "O", "b", "j", "e", "c", "t", "]">>
    ELSE <<"f", "u", "n", "c", "t", "i", "o", "n", " ">>
         \o (IF part = Constructor THEN <<"O", "b", "j", "e", "c", "t">> ELSE part)
         \o <<"(", ")", " ", "{", " ", "[", "n", "a", "t", "i", "v", "e", " ", "c", "o", "d", "e", "]", " ", "}">>

NoMatch == [match |-> FALSE, origin |-> "", path |-> <<>>, search |-> <<>>]

\* matchRoute: { match: false }, or the output as origin, path and search.
\* params is a plain object: params[part] is the segment captured for part,
\* or what Object.prototype has under that name, or undefined.
matchRoute(route, input, target) ==
    LET routeUrl == RouteUrl(route) IN
    IF ~routeUrl.ok \/ ~target.ok THEN NoMatch
    ELSE LET routeParts == filterBoolean(split(routeUrl.pathname))
             pathParts == filterBoolean(split(input.path))
             targetParts == filterBoolean(split(target.path))
             \* params[part]: the last index at which the pattern has part
             has(part) == \E i \in 1..Len(routeParts) :
                              startsWithColon(routeParts[i]) /\ routeParts[i] = part
             params(part) ==
                 pathParts[CHOOSE i \in 1..Len(routeParts) :
                     /\ startsWithColon(routeParts[i]) /\ routeParts[i] = part
                     /\ \A j \in (i + 1)..Len(routeParts) : routeParts[j] # part]
             targetParams == [k \in 1..Len(targetParts) |->
                                 IF has(targetParts[k]) THEN params(targetParts[k])
                                 ELSE IF Inherited(targetParts[k])
                                 THEN InheritedText(targetParts[k])
                                 ELSE targetParts[k]]
         IN  IF Len(pathParts) # Len(routeParts) THEN NoMatch
             ELSE [match |-> TRUE, origin |-> target.origin,
                   path |-> <<"/">> \o join(targetParams), search |-> input.search]

\* route(pattern, target): Map.set keeps the place of a key it already has.
route(rs, pattern, target) ==
    IF \E i \in 1..Len(rs) : rs[i].pattern = pattern
    THEN [i \in 1..Len(rs) |->
             IF rs[i].pattern = pattern THEN RouteConfig(pattern, target) ELSE rs[i]]
    ELSE Append(rs, RouteConfig(pattern, target))

\* unroute(pattern): Map.delete.
unroute(rs, pattern) == SelectSeq(rs, LAMBDA r : r.pattern # pattern)

\* ------------------------------------------------------ the pipeline run
\* One record per call of processMessage. frames are the middleware calls the
\* run has made, in the order it made them:
\*   parent   the frame whose next() made the call (0: processMessage)
\*   awaited  whether the caller awaits the promise of that next()
\*   st       "run", "await" (awaiting its next()), "calling" (inside a next()
\*            it does not await), "wait" (suspended outside the pipeline),
\*            "done" (returned), "fail" (threw)
\*   ops      the steps the call has taken so far
\* cur is the frame that is executing (0: none). root is processMessage
\* itself: "pending", "handed" (forwardMessage called), "dropped", "error".
\* atDrop is the number of middleware calls made when drop() was first called.
\* lost says forwardMessage found no upstream for the session, and closeArgs
\* is what it then closed the inbound socket with: "nocall" (no socket to
\* close), "noargs" (close()), "1011" (close(1011, reason)). failed says the
\* send of forwardMessage threw. at is Date.now() when the message came,
\* metadata is context.metadata, registered is this.middlewares as it was
\* when processMessage was called. jobs are the promise jobs of the task
\* that have not run yet, and given is message.data as forwardMessage read it.
NoOut == [to |-> "none", sid |-> 0, data |-> Undefined]

NewRun(sid, dir, sent, raw) ==
    [sid |-> sid, dir |-> dir, sent |-> sent, raw |-> raw,
     msg |-> createMessage(raw), dropped |-> FALSE, index |-> 0,
     frames |-> <<>>, cur |-> 0, root |-> "pending", ended |-> FALSE,
     out |-> NoOut, active |-> FALSE, nDropped |-> 0, nError |-> 0, atDrop |-> 0,
     lost |-> FALSE, closeArgs |-> "nocall", failed |-> FALSE, at |-> 0,
     metadata |-> Metadata({}), registered |-> <<>>, jobs |-> <<>>,
     given |-> Undefined]

Frame(m, p, aw, pos) ==
    [mw |-> m, pos |-> pos, pc |-> 1, parent |-> p, awaited |-> aw, st |-> "run",
     ops |-> <<>>]

\* processMessage after "await executeMiddleware()" has resolved.
RootReturn(r) ==
    IF ~r.dropped
    THEN [r EXCEPT !.root = "handed", !.given = r.msg.data, !.cur = 0]
    ELSE [r EXCEPT !.root = "dropped", !.nDropped = @ + 1, !.cur = 0]

\* processMessage's catch block.
RootThrow(r) == [r EXCEPT !.root = "error", !.nError = @ + 1, !.cur = 0]

\* Control leaves frame i, whose caller does not await it: the caller goes on
\* if it is still inside that next() call, and the task is over otherwise.
Detach(r, i) ==
    LET p == r.frames[i].parent IN
    IF p # 0 /\ r.frames[p].st = "calling"
    THEN [r EXCEPT !.frames[p].st = "run", !.cur = p]
    ELSE [r EXCEPT !.cur = 0]

\* A processMessage that goes on to forwardMessage while the promise of
\* executeMiddleware() is pending.
RootAwait_GoOn(r) == RootReturn(r)

\* processMessage while its "await executeMiddleware()" is pending.
RootAwait(r) == [r EXCEPT !.cur = 0]

\* A promise job: the continuation of an await whose promise has settled.
\*   "E"  executeMiddleware after its "await middleware(context, next)",
\*        where the middleware call is frame
\*   "M"  the middleware of frame after its "await next()"
\*   "R"  processMessage after its "await executeMiddleware()"
\* how is "done" (the promise was fulfilled) or "fail" (it was rejected).
Job(kind, frame, how) == [kind |-> kind, frame |-> frame, how |-> how]

Enqueue(r, job) == [r EXCEPT !.jobs = Append(@, job)]

\* Frame p is a wrapper (useUpstream, ..., useIf) whose guard does not match:
\* it is no async function, and what it returns is the promise of its next().
Returned(r, p) == ~FilterMatches(r.frames[p].mw.filter, r)

\* Control leaves frame i, which has returned a promise to its caller: an
\* executeMiddleware awaits that promise and returns its own, the caller that
\* awaits it is left in turn, and a caller that does not await it goes on.
RECURSIVE Unwind(_, _)
Unwind(r, i) ==
    LET f == r.frames[i]
        p == f.parent
    IN  IF ~f.awaited THEN Detach(r, i)
        ELSE IF p = 0 THEN RootAwait(r)
        ELSE Unwind(r, p)

\* Frame i has returned ("done"), thrown ("fail") or is suspended ("block").
\* When it has returned or thrown its promise is settled, and the
\* executeMiddleware that awaits it has a job.
Settle(r, i, how) ==
    IF how = "block" THEN Unwind(r, i)
    ELSE Unwind(Enqueue(r, Job("E", i, how)), i)

\* The promise of the executeMiddleware that called frame i has settled:
\* the job of whoever awaits it. A wrapper that returned this promise is
\* over with it, and the executeMiddleware that called the wrapper awaits it.
Notify(r, i, how) ==
    LET f == r.frames[i]
        p == f.parent
    IN  IF ~f.awaited THEN r
        ELSE IF p = 0 THEN Enqueue(r, Job("R", 0, how))
        ELSE IF Returned(r, p)
        THEN Enqueue([r EXCEPT !.frames[p].st = how], Job("E", p, how))
        ELSE Enqueue(r, Job("M", p, how))

\* executeMiddleware has returned without a middleware call: the caller has
\* a promise that is fulfilled already.
Fulfilled(r, caller, aw) ==
    IF caller = 0 THEN RootAwait(Enqueue(r, Job("R", 0, "done")))
    ELSE IF ~aw THEN r
    ELSE IF Returned(r, caller)
    THEN Settle([r EXCEPT !.frames[caller].st = "done"], caller, "done")
    ELSE Unwind(Enqueue([r EXCEPT !.frames[caller].st = "await"],
                        Job("M", caller, "done")), caller)

\* executeMiddleware without its "if (dropped) return".
executeMiddleware_NoDropTest(r, mws, caller, aw) ==
    IF r.index >= Len(mws)
    THEN Fulfilled([r EXCEPT !.ended = TRUE], caller, aw)
    ELSE LET r1 == IF caller = 0 THEN r
                   ELSE [r EXCEPT !.frames[caller].st =
                                      IF aw THEN "await" ELSE "calling"]
         IN  [r1 EXCEPT !.index = @ + 1,
                        !.frames = Append(@, Frame(mws[r.index + 1], caller, aw, r.index + 1)),
                        !.cur = Len(r.frames) + 1]

\* executeMiddleware, called by frame caller (0: processMessage) through a
\* next() that is awaited (aw) or not. mws is this.middlewares as it is now.
executeMiddleware(r, mws, caller, aw) ==
    IF r.dropped THEN Fulfilled(r, caller, aw)
    ELSE IF r.index >= Len(mws)
    THEN Fulfilled([r EXCEPT !.ended = TRUE], caller, aw)
    ELSE LET r1 == IF caller = 0 THEN r
                   ELSE [r EXCEPT !.frames[caller].st =
                                      IF aw THEN "await" ELSE "calling"]
         IN  [r1 EXCEPT !.index = @ + 1,
                        !.frames = Append(@, Frame(mws[r.index + 1], caller, aw, r.index + 1)),
                        !.cur = Len(r.frames) + 1]

\* One step of the executing frame.
Step(r, mws) ==
    LET i == r.cur
        f == r.frames[i]
        body == Body(f.mw, r)
        r1 == [r EXCEPT !.frames[i].pc = @ + 1,
                        !.frames[i].ops = Append(@, body[f.pc])]
    IN  IF f.pc > Len(body)
        THEN Settle([r EXCEPT !.frames[i].st = "done"], i, "done")
        ELSE CASE body[f.pc] = "drop" ->
                     [r1 EXCEPT !.dropped = TRUE,
                                !.atDrop = IF r.dropped THEN @ ELSE Len(r.frames)]
               [] body[f.pc] = "set" -> [r1 EXCEPT !.msg.data = Transformed]
               [] body[f.pc] \in JsonOps ->
                     LET res == jsonTransform(r.msg.data, body[f.pc]) IN
                     IF res.threw
                     THEN Settle([r1 EXCEPT !.frames[i].pc = f.pc, !.frames[i].st = "fail"],
                                 i, "fail")
                     ELSE [r1 EXCEPT !.msg.data = res.data]
               [] body[f.pc] = "wait" ->
                     Settle([r1 EXCEPT !.frames[i].st = "wait"], i, "block")
               [] body[f.pc] = "preview" ->
                     IF r.msg.data = Undefined
                     THEN Settle([r EXCEPT !.frames[i].st = "fail"], i, "fail")
                     ELSE r1
               [] body[f.pc] = "throw" ->
                     Settle([r1 EXCEPT !.frames[i].pc = f.pc, !.frames[i].st = "fail"], i, "fail")
               [] body[f.pc] = "next" -> executeMiddleware(r1, mws, i, TRUE)
               [] body[f.pc] = "nextNoAwait" -> executeMiddleware(r1, mws, i, FALSE)

\* One promise job.
RunJob(r, job) ==
    CASE job.kind = "R" -> (IF job.how = "done" THEN RootReturn(r) ELSE RootThrow(r))
      [] job.kind = "E" -> Notify(r, job.frame, job.how)
      [] job.kind = "M" ->
             IF job.how = "done"
             THEN [r EXCEPT !.frames[job.frame].st = "run", !.cur = job.frame]
             ELSE Settle([r EXCEPT !.frames[job.frame].st = "fail"], job.frame, "fail")

\* The task runs the executing frame until control leaves it, then the
\* promise jobs in the order they were made, until none is left.
RECURSIVE Quiesce(_, _)
Quiesce(r, mws) ==
    IF r.cur # 0 THEN Quiesce(Step(r, mws), mws)
    ELSE IF r.jobs # <<>>
    THEN Quiesce(RunJob([r EXCEPT !.jobs = Tail(@)], Head(r.jobs)), mws)
    ELSE r

\* processMessage up to the end of the task that called it.
processMessage(sid, dir, sent, raw, mws) ==
    Quiesce(executeMiddleware([NewRun(sid, dir, sent, raw) EXCEPT !.registered = mws],
                              mws, 0, TRUE), mws)

\* The continuation of frame i, suspended at a "wait".
ResumeFrame(r, i, mws) ==
    Quiesce([r EXCEPT !.frames[i].st = "run", !.cur = i], mws)

\* ---------------------------------------- WsClient / WebsocketClient
\* The wrapper around one WebSocket (src/unnamed/part_001 and part_002 have
\* the same connect, send, close and connected). A wrapper is a record:
\*   url          "reachable", "unreachable", or "malformed" (not a URL)
\*   ws           this.ws: "null" or "socket"
\*   ready        the readyState of the WebSocket the constructor made:
\*                "connecting", "open", "closing", "closed"; "none" when
\*                "new WebSocket" threw and there is no socket
\*   isConnected  this.isConnected
\*   opens, closes    the 'open' and 'close' events the wrapper has emitted
\*   closeCalls, sends  the calls of close() and send() so far
\*   transmitted  the messages given to the socket's send()
\*   threw        a call of send() has thrown
\* The WebSocket is the runtime's: "new WebSocket" throws a SyntaxError for
\* a string that is not a ws: URL; close() makes a socket that is connecting
\* or open closing, after which its 'open' does not fire and its 'close'
\* does; send() throws on a socket that is connecting and discards on one
\* that is closing or closed.
ClientUrls == {"reachable", "unreachable", "malformed"}

\* The constructor: super(), then connect() with its try/catch.
connect(url) ==
    [url |-> url,
     ws |-> IF url = "malformed" THEN "null" ELSE "socket",
     ready |-> IF url = "malformed" THEN "none" ELSE "connecting",
     isConnected |-> FALSE, opens |-> 0, closes |-> 0, closeCalls |-> 0,
     sends |-> 0, transmitted |-> 0, threw |-> FALSE]

\* ws.onopen
onopen(w) == [w EXCEPT !.isConnected = TRUE, !.opens = @ + 1]

\* ws.onerror
onerror(w) == [w EXCEPT !.isConnected = FALSE]

\* ws.onclose
onclose(w) == [w EXCEPT !.isConnected = FALSE, !.closes = @ + 1]

\* get connected()
connected(w) == w.isConnected

\* A send() that gives the message to the socket whatever its readyState.
send_NoTest(w) ==
    LET w1 == [w EXCEPT !.sends = @ + 1] IN
    IF w.ws = "null" \/ w.ready = "connecting" THEN [w1 EXCEPT !.threw = TRUE]
    ELSE IF w.ready = "open" THEN [w1 EXCEPT !.transmitted = @ + 1]
    ELSE w1

\* send(message): if (this.ws?.readyState === WebSocket.OPEN) this.ws.send(message)
send(w) ==
    LET w1 == [w EXCEPT !.sends = @ + 1] IN
    IF w.ws = "socket" /\ w.ready = "open"
    THEN [w1 EXCEPT !.transmitted = @ + 1]
    ELSE w1

\* close(): the socket, if this.ws holds one, is closed and let go.
close(w) ==
    LET w1 == [w EXCEPT !.closeCalls = @ + 1, !.isConnected = FALSE] IN
    IF w.ws = "socket"
    THEN [w1 EXCEPT !.ws = "null",
                    !.ready = IF @ \in {"connecting", "open"} THEN "closing" ELSE @]
    ELSE w1

\* ----------------------------------------------------------------- state
VARIABLES
    routes,       \* WebsocketProxy.routes / WsProxy.routes, in insertion order
    middlewares,  \* WebsocketProxy.middlewares
    upstreams,    \* the keys of the upstreams map (the session registry)
    clients,      \* the keys of WsServer.clients
    upg,          \* per session: the upgrade request, "none", "pending"
                  \* (onUpgrade awaits createUpstreamConnection), "accepted",
                  \* "rejected" (the connection failed), "noroute" (onUpgrade
                  \* returned false before it made a connection), "threw"
                  \* (onUpgrade threw)
    inbound,      \* per session: the inbound socket, "none", "upgraded" (open
                  \* callback not yet run), "open", "closing", "closed"
    link,         \* per session: the WebSocket of its WsClient, "none",
                  \* "connecting", "open", "closing", "closed"
    timer,        \* per session: the connect timeout, "unset", "armed",
                  \* "cleared", "fired"
    req,          \* per session: the URL of its upgrade request (ws.data.url)
    href,         \* per session: the URL its WsClient was created with
    conns,        \* per session: the number of WsClient objects created for it
    counts,       \* the counts map of the rateLimit middleware
    authenticated,\* the authenticated set of the auth middleware
    now,          \* Date.now()
    limit,        \* the arguments rateLimit was made with
    wsc,          \* the WsClient wrappers that are used on their own
    removed,      \* the last call of removeMiddleware: <<the middleware
                  \* given, the number of processMessage calls made before
                  \* it>>, and <<>> when there was none
    emitted,      \* per session: the 'upstream:connected' and
                  \* 'upstream:disconnected' events the proxy has emitted
    runs          \* the calls of processMessage, in the order they were made

vars == <<routes, middlewares, upstreams, clients, upg, inbound, link, timer, req, href,
          conns, counts, authenticated, now, limit, wsc, removed, emitted, runs>>

\* The state of the built-in middlewares, the clock, the wrappers that are
\* used without a proxy, and the last call of removeMiddleware.
ext == <<counts, authenticated, now, limit, wsc, removed>>

\* No built-in middleware was made: no state of theirs.
NoCounts == [key \in {} |-> 0]
NoLimit == [maxMessages |-> 0, windowMs |-> 0]
NoBuiltin ==
    /\ counts = NoCounts
    /\ authenticated = {}
    /\ now = 0
    /\ limit = NoLimit

\* No wrapper is used on its own.
NoClients == [n \in {} |-> connect("reachable")]

\* The proxy has emitted no event of an upstream.
NoEvents == [s \in Sessions |-> <<>>]

NoUrl == Url(<<>>, <<>>)

Init ==
    /\ routes = RouteTable
    /\ middlewares = <<>>
    /\ upstreams = {}
    /\ clients = {}
    /\ upg = [s \in Sessions |-> "none"]
    /\ inbound = [s \in Sessions |-> "none"]
    /\ link = [s \in Sessions |-> "none"]
    /\ timer = [s \in Sessions |-> "unset"]
    /\ req = [s \in Sessions |-> NoUrl]
    /\ href = [s \in Sessions |-> NoMatch]
    /\ conns = [s \in Sessions |-> 0]
    /\ NoBuiltin
    /\ wsc = NoClients
    /\ removed = <<>>
    /\ emitted = NoEvents
    /\ runs = <<>>

\* A session is ACTIVE: inbound client open, upstream link open and registered.
Active(s) == s \in clients /\ inbound[s] = "open" /\ link[s] = "open" /\ s \in upstreams

\* ------------------------------------------------------ WsServer, WsClient
\* WsServer.close that closes every client.
WsServerClose_All(inb, s) ==
    [t \in Sessions |-> IF t \in clients /\ inb[t] = "open" THEN "closing" ELSE inb[t]]

\* WsServer.close(sessionId): this.clients.get(sessionId)?.close()
WsServerClose(inb, s) ==
    IF s \in clients /\ inb[s] = "open" THEN [inb EXCEPT ![s] = "closing"] ELSE inb

\* What WsServer.close(sessionId, ...) calls the socket's close() with: it
\* takes the sessionId alone and passes nothing on.
WsServerCloseArgs(s) == IF s \in clients THEN "noargs" ELSE "nocall"

\* WsClient.close(): the socket, if any, is closed.
WsClientClose(lnk, s) ==
    IF lnk[s] \in {"connecting", "open"} THEN [lnk EXCEPT ![s] = "closing"] ELSE lnk

\* ------------------------------------------------------- WebsocketProxy
\* use with unshift in place of push.
use_Unshift(mws, m) == <<m>> \o mws

\* use(middleware): also what useUpstream, useDownstream, useText, useBinary
\* and useIf call with the guarded middleware.
use(mws, m) == Append(mws, m)

Use(m) ==
    /\ Len(middlewares) < MaxMw
    /\ middlewares' = use(middlewares, m)
    /\ UNCHANGED <<ext, emitted, routes, req, href, conns, upstreams, clients, upg, inbound, link, timer, runs>>

\* A catch block of forwardMessage that only logs.
ForwardCatch_LogOnly(inb, s) == inb

\* The catch block of forwardMessage: this.server.close(sessionId).
ForwardCatch(inb, s) == WsServerClose(inb, s)

\* A forwardMessage that sends to the peer whatever has become of it.
forwardMessage_Blind(r, thr) ==
    <<[r EXCEPT !.active = Active(r.sid),
                !.out = [to |-> IF r.dir = UPSTREAM THEN "upstream" ELSE "client",
                         sid |-> r.sid, data |-> r.given]],
      inbound>>

\* forwardMessage for run r, whose pipeline has handed it over. thr says
\* whether the inbound socket's send() throws when given undefined.
\* The result is <<the run with what was delivered, inbound>>. A socket
\* that is not open delivers nothing; the socket of the inbound client is in
\* WsServer's clients map, and send() is called on it, until its close
\* callback has run.
forwardMessage(r, thr) ==
    LET s == r.sid
        raw == r.given
        ra == [r EXCEPT !.active = Active(s)]
    IN  IF r.dir = UPSTREAM
        THEN IF s \notin upstreams
             THEN <<[ra EXCEPT !.lost = TRUE, !.closeArgs = WsServerCloseArgs(s)],
                    WsServerClose(inbound, s)>>
             ELSE IF link[s] = "open"
             THEN <<[ra EXCEPT !.out = [to |-> "upstream", sid |-> s, data |-> raw]], inbound>>
             ELSE <<ra, inbound>>
        ELSE IF s \in clients
             THEN IF raw = Undefined /\ thr
                  THEN <<[ra EXCEPT !.failed = TRUE], ForwardCatch(inbound, s)>>
                  ELSE IF inbound[s] = "open"
                  THEN <<[ra EXCEPT !.out = [to |-> "client", sid |-> s, data |-> raw]], inbound>>
                  ELSE <<ra, inbound>>
             ELSE <<ra, inbound>>

\* forwardMessage when the run was handed over in this task. It has read
\* message.data (given) when processMessage called it; the sockets and maps it
\* uses are not touched by the jobs of the task that run after it.
Deliver(before, r, thr) ==
    IF r.root = "handed" /\ before # "handed"
    THEN forwardMessage(r, thr)
    ELSE <<r, inbound>>

\* WsServer's fetch when the upgrade handler has thrown: it returns without
\* server.upgrade.
FetchCatch_Upgrade(inb, s) == [inb EXCEPT ![s] = "upgraded"]

FetchCatch(inb, s) == inb

\* An upgrade request is given a sessionId no request before it was given
\* (Bun.randomUUIDv7).
FreshSession_Retry(s) == upg[s] \in {"none", "rejected"}

FreshSession(s) == upg[s] = "none"

\* A lookup in the table the proxy started with.
Entries_AtStart(rs) == RouteTable

\* this.routes.entries(): the table as it is when the request is looked up.
Entries(rs) == rs

\* A fetch that upgrades the request while the upgrade handler is pending.
FetchAwait_Upgrade(inb, s) == [inb EXCEPT ![s] = "upgraded"]

\* WsServer's fetch while "await this.onUpgradeHandler?.(ctx)" is pending:
\* server.upgrade has not been called.
FetchAwait(inb, s) == inb

\* onUpgrade with createUpstreamConnection up to its "new Promise": the route
\* lookup, the timer, the WsClient, the registry entry.
Upgrade(s, url) ==
    /\ FreshSession(s)
    /\ \A t \in Sessions : t < s => upg[t] # "none"
    /\ req' = [req EXCEPT ![s] = url]
    /\ LET table == Entries(routes)
           k == findRoute(table, url)
           m == IF k <= 0 THEN NoMatch
                ELSE matchRoute(table[k].pattern, url, table[k].target)
       IN  IF ~m.match
           THEN /\ upg' = [upg EXCEPT ![s] = IF k = -1 THEN "threw" ELSE "noroute"]
                /\ inbound' = FetchCatch(inbound, s)
                /\ UNCHANGED <<timer, link, upstreams, href, conns>>
           ELSE /\ upg' = [upg EXCEPT ![s] = "pending"]
                /\ timer' = [timer EXCEPT ![s] = "armed"]
                /\ link' = [link EXCEPT ![s] = "connecting"]
                /\ upstreams' = upstreams \cup {s}
                /\ href' = [href EXCEPT ![s] = m]
                /\ conns' = [conns EXCEPT ![s] = @ + 1]
                /\ inbound' = FetchAwait(inbound, s)
    /\ UNCHANGED <<ext, emitted, routes, middlewares, clients, runs>>

\* this.emit(event, ...) of an event of the upstream of session s.
Emit(ev, s, event) == [ev EXCEPT ![s] = Append(@, event)]

\* The upstream's 'open' handler: clearTimeout, emit, resolve; onUpgrade
\* returns true and WsServer upgrades the request.
UpstreamOpen(s) ==
    /\ link[s] = "connecting"
    /\ link' = [link EXCEPT ![s] = "open"]
    /\ timer' = [timer EXCEPT ![s] = IF @ = "armed" THEN "cleared" ELSE @]
    /\ emitted' = Emit(emitted, s, "upstream:connected")
    /\ IF upg[s] = "pending"
       THEN /\ upg' = [upg EXCEPT ![s] = "accepted"]
            /\ inbound' = [inbound EXCEPT ![s] = "upgraded"]
       ELSE UNCHANGED <<upg, inbound>>
    /\ UNCHANGED <<ext, routes, req, href, conns, middlewares, upstreams, clients, runs>>

\* The upstream's 'close' handler (the socket closed, or failed to connect).
OnUpstreamClose(s) ==
    /\ emitted' = Emit(emitted, s, "upstream:disconnected")
    /\ upstreams' = upstreams \ {s}
    /\ inbound' = WsServerClose(inbound, s)

UpstreamClosed(s) ==
    /\ link[s] \in {"connecting", "open", "closing"}
    /\ link' = [link EXCEPT ![s] = "closed"]
    /\ OnUpstreamClose(s)
    /\ UNCHANGED <<ext, routes, req, href, conns, middlewares, clients, upg, timer, runs>>

\* The 10 s timer of createUpstreamConnection: reject; onUpgrade returns
\* false and the request is not upgraded.
OnTimeout(s) ==
    /\ upg' = [upg EXCEPT ![s] = IF @ = "pending" THEN "rejected" ELSE @]
    /\ inbound' = IF upg[s] = "pending" THEN FetchCatch(inbound, s) ELSE inbound
    /\ UNCHANGED <<upstreams, link>>

Timeout(s) ==
    /\ timer[s] = "armed"
    /\ timer' = [timer EXCEPT ![s] = "fired"]
    /\ OnTimeout(s)
    /\ UNCHANGED <<ext, emitted, routes, req, href, conns, middlewares, clients, runs>>

\* An open callback that does not put the socket into the clients map.
ServerOpen_NoSet(s) ==
    /\ inbound[s] = "upgraded"
    /\ inbound' = [inbound EXCEPT ![s] = "open"]
    /\ UNCHANGED <<ext, emitted, routes, req, href, conns, middlewares, upstreams, clients, upg, link,
                   timer, runs>>

\* WsServer's open callback; the proxy's 'open' handler only emits.
ServerOpen(s) ==
    /\ inbound[s] = "upgraded"
    /\ inbound' = [inbound EXCEPT ![s] = "open"]
    /\ clients' = clients \cup {s}
    /\ UNCHANGED <<ext, emitted, routes, req, href, conns, middlewares, upstreams, upg, link, timer, runs>>

\* A 'close' handler that only emits 'client:disconnected'.
OnServerClose_EmitOnly(s) == UNCHANGED <<link, upstreams>>

\* The proxy's handler of WsServer's 'close'.
OnServerClose(s) ==
    IF s \in upstreams
    THEN /\ link' = WsClientClose(link, s)
         /\ upstreams' = upstreams \ {s}
    ELSE UNCHANGED <<link, upstreams>>

\* WsServer's close callback: the inbound socket has closed.
ServerClosed(s) ==
    /\ inbound[s] \in {"open", "closing"}
    /\ inbound' = [inbound EXCEPT ![s] = "closed"]
    /\ clients' = clients \ {s}
    /\ OnServerClose(s)
    /\ UNCHANGED <<ext, emitted, routes, req, href, conns, middlewares, upg, timer, runs>>

\* A 'message' handler that leaves a message unprocessed while the run of a
\* message before it has not ended.
ClientMessage_Queued(s, p, thr) ==
    /\ Len(runs) < MaxRuns
    /\ inbound[s] = "open"
    /\ LET r == processMessage(s, UPSTREAM, p, p, middlewares)
           d == Deliver("pending", r, thr)
       IN  IF \E j \in 1..Len(runs) : runs[j].root = "pending"
           THEN /\ runs' = Append(runs, NewRun(s, UPSTREAM, p, p))
                /\ UNCHANGED inbound
           ELSE /\ runs' = Append(runs, d[1])
                /\ inbound' = d[2]
    /\ UNCHANGED <<ext, emitted, routes, req, href, conns, middlewares, upstreams, clients, upg, link, timer>>

\* A message of the inbound client: WsServer emits 'message' and the proxy's
\* handler runs processMessage(sessionId, UPSTREAM, message).
ClientMessage(s, p, thr) ==
    /\ Len(runs) < MaxRuns
    /\ inbound[s] = "open"
    /\ LET r == processMessage(s, UPSTREAM, p, p, middlewares)
           d == Deliver("pending", r, thr)
       IN  /\ runs' = Append(runs, d[1])
           /\ inbound' = d[2]
    /\ UNCHANGED <<ext, emitted, routes, req, href, conns, middlewares, upstreams, clients, upg, link, timer>>

\* A message of the upstream: WsClient emits 'message' with event.data, and
\* the proxy's handler runs processMessage(sessionId, DOWNSTREAM, event.data)
\* on what it was given.
UpstreamMessage(s, p, thr) ==
    /\ Len(runs) < MaxRuns
    /\ link[s] = "open"
    /\ LET r == processMessage(s, DOWNSTREAM, p, PropData(p), middlewares)
           d == Deliver("pending", r, thr)
       IN  /\ runs' = Append(runs, d[1])
           /\ inbound' = d[2]
    /\ UNCHANGED <<ext, emitted, routes, req, href, conns, middlewares, upstreams, clients, upg, link, timer>>

\* What a middleware of run k awaited outside the pipeline has settled.
Resume(k, i, thr) ==
    /\ k \in 1..Len(runs)
    /\ i \in 1..Len(runs[k].frames)
    /\ runs[k].frames[i].st = "wait"
    /\ LET r == ResumeFrame(runs[k], i, middlewares)
           d == Deliver(runs[k].root, r, thr)
       IN  /\ runs' = [runs EXCEPT ![k] = d[1]]
           /\ inbound' = d[2]
    /\ UNCHANGED <<ext, emitted, routes, req, href, conns, middlewares, upstreams, clients, upg, link, timer>>

\* Session ids are time-ordered (Bun.randomUUIDv7): session s + 1 is the
\* upgrade request that follows that of session s.
Next ==
    \/ \E m \in CoreCatalogue : Use(m)
    \/ \E s \in Sessions, url \in Urls : Upgrade(s, url)
    \/ \E s \in Sessions : UpstreamOpen(s)
    \/ \E s \in Sessions : UpstreamClosed(s)
    \/ \E s \in Sessions : Timeout(s)
    \/ \E s \in Sessions : ServerOpen(s)
    \/ \E s \in Sessions : ServerClosed(s)
    \/ \E s \in Sessions, p \in Payloads, thr \in BOOLEAN : ClientMessage(s, p, thr)
    \/ \E s \in Sessions, p \in Payloads, thr \in BOOLEAN : UpstreamMessage(s, p, thr)
    \/ \E k \in 1..MaxRuns, i \in 1..MaxMw, thr \in BOOLEAN : Resume(k, i, thr)

\* WebsocketProxy, two sessions, the middlewares of CoreCatalogue.
Spec == Init /\ [][Next]_vars

NextPipe ==
    \/ \E m \in Catalogue : Use(m)
    \/ \E url \in Urls : Upgrade(1, url)
    \/ UpstreamOpen(1)
    \/ UpstreamClosed(1)
    \/ Timeout(1)
    \/ ServerOpen(1)
    \/ ServerClosed(1)
    \/ \E p \in Payloads, thr \in BOOLEAN : ClientMessage(1, p, thr)
    \/ \E p \in Payloads, thr \in BOOLEAN : UpstreamMessage(1, p, thr)
    \/ \E k \in 1..MaxRuns, i \in 1..MaxMw, thr \in BOOLEAN : Resume(k, i, thr)

\* WebsocketProxy, the first session alone, every middleware of Catalogue.
SpecPipe == Init /\ [][NextPipe]_vars

NextStuck ==
    \/ \E m \in StuckCatalogue : Use(m)
    \/ \E s \in Sessions, url \in Urls : Upgrade(s, url)
    \/ \E s \in Sessions : UpstreamOpen(s)
    \/ \E s \in Sessions : UpstreamClosed(s)
    \/ \E s \in Sessions : Timeout(s)
    \/ \E s \in Sessions : ServerOpen(s)
    \/ \E s \in Sessions : ServerClosed(s)
    \/ \E s \in Sessions, p \in Payloads, thr \in BOOLEAN : ClientMessage(s, p, thr)
    \/ \E s \in Sessions, p \in Payloads, thr \in BOOLEAN : UpstreamMessage(s, p, thr)
    \/ \E k \in 1..MaxRuns, i \in 1..MaxMw, thr \in BOOLEAN : Resume(k, i, thr)

\* WebsocketProxy, two sessions, a middleware that is stuck for the first.
SpecStuck == Init /\ [][NextStuck]_vars

NextPost ==
    \/ \E m \in PostCatalogue : Use(m)
    \/ \E url \in Urls : Upgrade(1, url)
    \/ UpstreamOpen(1)
    \/ UpstreamClosed(1)
    \/ Timeout(1)
    \/ ServerOpen(1)
    \/ ServerClosed(1)
    \/ \E p \in Payloads, thr \in BOOLEAN : ClientMessage(1, p, thr)
    \/ \E p \in Payloads, thr \in BOOLEAN : UpstreamMessage(1, p, thr)
    \/ \E k \in 1..MaxRuns, i \in 1..MaxMw, thr \in BOOLEAN : Resume(k, i, thr)

\* WebsocketProxy, the first session alone, middlewares with code after
\* their next().
SpecPost == Init /\ [][NextPost]_vars

\* The route of RouteTable registered with a metadata bag.
InitMeta ==
    /\ routes = <<RouteConfigWith(RouteTable[1].pattern, RouteTable[1].target,
                                  RouteMetadata)>>
    /\ middlewares = <<>>
    /\ upstreams = {}
    /\ clients = {}
    /\ upg = [s \in Sessions |-> "none"]
    /\ inbound = [s \in Sessions |-> "none"]
    /\ link = [s \in Sessions |-> "none"]
    /\ timer = [s \in Sessions |-> "unset"]
    /\ req = [s \in Sessions |-> NoUrl]
    /\ href = [s \in Sessions |-> NoMatch]
    /\ conns = [s \in Sessions |-> 0]
    /\ NoBuiltin
    /\ wsc = NoClients
    /\ removed = <<>>
    /\ emitted = NoEvents
    /\ runs = <<>>

\* WebsocketProxy, the first session alone, a route with metadata.
SpecMeta == InitMeta /\ [][NextPipe]_vars

\* A middleware that rewrites the messages of the upstream is registered.
InitSend ==
    /\ routes = RouteTable
    /\ middlewares = <<MwDownSet>>
    /\ upstreams = {}
    /\ clients = {}
    /\ upg = [s \in Sessions |-> "none"]
    /\ inbound = [s \in Sessions |-> "none"]
    /\ link = [s \in Sessions |-> "none"]
    /\ timer = [s \in Sessions |-> "unset"]
    /\ req = [s \in Sessions |-> NoUrl]
    /\ href = [s \in Sessions |-> NoMatch]
    /\ conns = [s \in Sessions |-> 0]
    /\ NoBuiltin
    /\ wsc = NoClients
    /\ removed = <<>>
    /\ emitted = NoEvents
    /\ runs = <<>>

\* WebsocketProxy, two sessions, the messages of the upstream rewritten.
SpecSend == InitSend /\ [][NextStuck]_vars

\* ------------------------------------------------ the built-in middlewares
MaxBuiltinRuns == 2
MaxRateRuns == 3
MaxTime == 2
MaxLimit == 2
Windows == {0, 1}

\* use(rateLimit(limit.maxMessages, limit.windowMs)), useUpstream(auth(...))
\* and useText(jsonTransform(...)): the body of the first two is made out
\* when they are called, from their state.
MwRateLimit == [filter |-> "any", body |-> <<"rateLimit">>]
MwAuth == [filter |-> UPSTREAM, body |-> <<"auth">>]
MwJson(op) == [filter |-> "text", body |-> <<op, "next">>]
\* logger(name): the preview of the message, await next(), the duration.
MwLogger == [filter |-> "any", body |-> <<"preview", "next">>]

BuiltinLists ==
    {<<MwRateLimit>>, <<MwAuth>>, <<MwLogger>>} \cup {<<MwJson(op)>> : op \in JsonOps}

\* The key of rateLimit: `${context.sessionId}:${context.direction}`.
RateKey(sid, dir) == <<sid, dir>>

\* The middleware rateLimit(maxMessages, windowMs) makes, called at time t
\* for a context of that key: the counts map it leaves and the steps it takes.
rateLimit(cnts, key, t, maxMessages, windowMs) ==
    IF key \notin DOMAIN cnts \/ t > cnts[key].resetAt
    THEN [counts |-> (key :> [count |-> 1, resetAt |-> t + windowMs]) @@ cnts,
          body |-> <<"next">>]
    ELSE IF cnts[key].count >= maxMessages
    THEN [counts |-> cnts, body |-> <<"drop">>]
    ELSE [counts |-> [cnts EXCEPT ![key].count = @ + 1], body |-> <<"next">>]

\* The middleware auth(validateToken) makes, up to its first await: the
\* steps it takes. For an auth message with a token of a session that is not
\* authenticated it awaits validateToken ("wait"), and what it does then
\* ("auth") is decided when validateToken has settled.
auth(authed, sid, msg) ==
    IF sid \in authed THEN <<"next">>
    ELSE IF msg.type = "text" /\ JSONparse(msg.data) = [ok |-> TRUE, val |-> AuthObject]
    THEN <<"wait", "auth">>
    ELSE <<"drop">>

\* auth after "await validateToken(data.token)" has given valid (FALSE also
\* stands for a validateToken that threw): the set it leaves, the steps it
\* takes and the entries it writes into context.metadata.
validated(authed, sid, valid) ==
    IF valid
    THEN [authenticated |-> authed \cup {sid}, body |-> <<"drop">>,
          meta |-> {<<"authenticated", "true">>, <<"userId", "undefined">>}]
    ELSE IF sid \notin authed
    THEN [authenticated |-> authed, body |-> <<"drop">>, meta |-> {}]
    ELSE [authenticated |-> authed, body |-> <<"next">>, meta |-> {}]

\* Middleware m as it acts for context ctx, and the state it leaves.
Builtin(m, ctx) ==
    IF ~FilterMatches(m.filter, ctx)
    THEN [counts |-> counts, mw |-> m]
    ELSE IF m.body = <<"rateLimit">>
    THEN LET rl == rateLimit(counts, RateKey(ctx.sid, ctx.dir), now,
                             limit.maxMessages, limit.windowMs)
         IN  [counts |-> rl.counts, mw |-> [filter |-> m.filter, body |-> rl.body]]
    ELSE IF m.body = <<"auth">>
    THEN [counts |-> counts,
          mw |-> [filter |-> m.filter, body |-> auth(authenticated, ctx.sid, ctx.msg)]]
    ELSE [counts |-> counts, mw |-> m]

\* The messages sent where the middleware is the only one registered.
BuiltinPayloads(mws) ==
    IF mws = <<MwRateLimit>> \/ mws = <<MwLogger>> THEN {Str("a")}
    ELSE IF mws = <<MwAuth>> THEN {Str(AuthText), Str("a")}
    ELSE {Str("1"), Str(" 1"), Str("a"), Str(AuthText)}

\* processMessage where the one registered middleware is a built-in one.
BuiltinMessage(s, dir, p, raw, thr) ==
    /\ Len(runs) < (IF limit = NoLimit THEN MaxBuiltinRuns ELSE MaxRateRuns)
    /\ p \in BuiltinPayloads(middlewares)
    /\ LET b == Builtin(middlewares[1], NewRun(s, dir, p, raw))
           r == [processMessage(s, dir, p, raw, <<b.mw>>) EXCEPT !.at = now]
           d == Deliver("pending", r, thr)
       IN  /\ runs' = Append(runs, d[1])
           /\ inbound' = d[2]
           /\ counts' = b.counts
    /\ UNCHANGED <<routes, middlewares, upstreams, clients, upg, link, timer, req, href,
                   conns, authenticated, now, limit, wsc, removed, emitted>>

BuiltinClientMessage(s, p, thr) ==
    /\ inbound[s] = "open"
    /\ BuiltinMessage(s, UPSTREAM, p, p, thr)

BuiltinUpstreamMessage(s, p, thr) ==
    /\ link[s] = "open"
    /\ BuiltinMessage(s, DOWNSTREAM, p, PropData(p), thr)

\* The validateToken that auth awaits for run k has settled.
TokenValidated(k, valid, thr) ==
    /\ k \in 1..Len(runs)
    /\ runs[k].frames # <<>>
    /\ runs[k].frames[1].st = "wait"
    /\ runs[k].frames[1].mw.body = <<"wait", "auth">>
    /\ LET v == validated(authenticated, runs[k].sid, valid)
           r0 == [runs[k] EXCEPT !.frames[1].mw.body = <<"wait">> \o v.body,
                                 !.metadata.entries = @ \cup v.meta]
           r == ResumeFrame(r0, 1, <<r0.frames[1].mw>>)
           d == Deliver(runs[k].root, r, thr)
       IN  /\ runs' = [runs EXCEPT ![k] = d[1]]
           /\ inbound' = d[2]
           /\ authenticated' = v.authenticated
    /\ UNCHANGED <<routes, middlewares, upstreams, clients, upg, link, timer, req, href,
                   conns, counts, now, limit, wsc, removed, emitted>>

\* Time passes.
Tick ==
    /\ now < MaxTime
    /\ now' = now + 1
    /\ UNCHANGED <<routes, middlewares, upstreams, clients, upg, inbound, link, timer, req,
                   href, conns, counts, authenticated, limit, wsc, removed, emitted, runs>>

\* Every session is ACTIVE, through the route of RouteTable.
AllActive ==
    /\ routes = RouteTable
    /\ upstreams = Sessions
    /\ clients = Sessions
    /\ upg = [s \in Sessions |-> "accepted"]
    /\ inbound = [s \in Sessions |-> "open"]
    /\ link = [s \in Sessions |-> "open"]
    /\ timer = [s \in Sessions |-> "cleared"]
    /\ req = [s \in Sessions |-> Url(<<"/", "a", "/", ":">>, <<"?", "q">>)]
    /\ href = [s \in Sessions |->
                  matchRoute(RouteTable[1].pattern, req[s], RouteTable[1].target)]
    /\ conns = [s \in Sessions |-> 1]
    /\ wsc = NoClients
    /\ removed = <<>>
    /\ emitted = [s \in Sessions |-> <<"upstream:connected">>]
    /\ runs = <<>>

\* use(rateLimit(maxMessages, windowMs)) with some arguments.
InitRate ==
    /\ AllActive
    /\ middlewares = <<MwRateLimit>>
    /\ counts = NoCounts
    /\ authenticated = {}
    /\ now = 0
    /\ limit \in [maxMessages : 0..MaxLimit, windowMs : Windows]

NextRate ==
    \/ Tick
    \/ \E s \in Sessions, p \in BuiltinPayloads(middlewares), thr \in BOOLEAN :
          BuiltinClientMessage(s, p, thr)
    \/ \E s \in Sessions, p \in BuiltinPayloads(middlewares), thr \in BOOLEAN :
          BuiltinUpstreamMessage(s, p, thr)

\* WebsocketProxy with two ACTIVE sessions, rateLimit registered, and time.
SpecRate == InitRate /\ [][NextRate]_vars

\* One built-in middleware is registered; rateLimit is rateLimit(1, 1).
InitBuiltin ==
    /\ AllActive
    /\ middlewares \in BuiltinLists
    /\ counts = NoCounts
    /\ authenticated = {}
    /\ now = 0
    /\ limit = IF middlewares = <<MwRateLimit>>
               THEN [maxMessages |-> 1, windowMs |-> 1]
               ELSE NoLimit

NextBuiltin ==
    \/ \E s \in Sessions, p \in BuiltinPayloads(middlewares), thr \in BOOLEAN :
          BuiltinClientMessage(s, p, thr)
    \/ \E s \in Sessions, p \in BuiltinPayloads(middlewares), thr \in BOOLEAN :
          BuiltinUpstreamMessage(s, p, thr)
    \/ \E k \in 1..MaxBuiltinRuns, valid \in BOOLEAN, thr \in BOOLEAN :
          TokenValidated(k, valid, thr)
    \/ \E s \in Sessions : ServerClosed(s)
    \/ \E s \in Sessions : UpstreamClosed(s)

\* WebsocketProxy with two ACTIVE sessions and one built-in middleware, up
\* to the close of the sessions.
SpecBuiltin == InitBuiltin /\ [][NextBuiltin]_vars

\* The close callback of a socket the proxy has closed.
ServerCloseDone(s) == inbound[s] = "closing" /\ ServerClosed(s)

\* The close callback of a socket that is closing is run in the end; a
\* client that is open may stay so.
SpecPipeFair == SpecPipe /\ WF_vars(ServerCloseDone(1))

\* The open callback of a socket that was upgraded is run in the end, and
\* so is the close callback of one the proxy has closed; a client that is
\* open may stay so.
SpecOpenFair == SpecPipe /\ WF_vars(ServerOpen(1)) /\ WF_vars(ServerCloseDone(1))

\* ------------------------------------- removeMiddleware, clearMiddlewares
\* this.middlewares.indexOf(middleware): the first place that holds the
\* function itself (0: none). A place that holds a wrapper made by
\* useUpstream, useDownstream, useText, useBinary or useIf holds another
\* function than the one that was wrapped.
indexOf(mws, m) ==
    IF \E i \in 1..Len(mws) : mws[i] = m
    THEN CHOOSE i \in 1..Len(mws) : mws[i] = m /\ \A j \in 1..(i - 1) : mws[j] # m
    ELSE 0

\* splice(index, 1)
splice(mws, index) == SubSeq(mws, 1, index - 1) \o SubSeq(mws, index + 1, Len(mws))

\* removeMiddleware(middleware)
removeMiddleware(mws, m) ==
    LET index == indexOf(mws, m) IN
    IF index > 0 THEN splice(mws, index) ELSE mws

\* clearMiddlewares()
clearMiddlewares(mws) == <<>>

RemoveMiddleware(m) ==
    /\ middlewares' = removeMiddleware(middlewares, m)
    /\ removed' = <<m, Len(runs)>>
    /\ UNCHANGED <<counts, authenticated, now, limit, wsc, emitted, routes, req, href, conns,
                   upstreams, clients, upg, inbound, link, timer, runs>>

ClearMiddlewares ==
    /\ middlewares # <<>>
    /\ middlewares' = clearMiddlewares(middlewares)
    /\ UNCHANGED <<ext, emitted, routes, req, href, conns, upstreams, clients, upg, inbound,
                   link, timer, runs>>

\* Every session is ACTIVE and no middleware is registered.
InitChange ==
    /\ AllActive
    /\ NoBuiltin
    /\ middlewares = <<>>

NextChange ==
    \/ \E m \in ChangeCatalogue : Use(m)
    \/ \E m \in ChangeCatalogue : RemoveMiddleware(m)
    \/ ClearMiddlewares
    \/ \E p \in Payloads, thr \in BOOLEAN : ClientMessage(1, p, thr)
    \/ \E k \in 1..MaxRuns, i \in 1..MaxMw, thr \in BOOLEAN : Resume(k, i, thr)

\* WebsocketProxy whose middlewares are added and removed while messages of
\* the client of an ACTIVE session are in the pipeline.
SpecChange == InitChange /\ [][NextChange]_vars

\* Every session is ACTIVE and one or two registrations have been made.
InitRemove ==
    /\ AllActive
    /\ NoBuiltin
    /\ middlewares \in [1..1 -> RemoveCatalogue] \cup [1..2 -> RemoveCatalogue]

NextRemove ==
    \/ \E m \in RemoveCatalogue : RemoveMiddleware(Inner(m))
    \/ ClearMiddlewares
    \/ \E s \in Sessions, p \in Payloads, thr \in BOOLEAN : ClientMessage(s, p, thr)
    \/ \E s \in Sessions, p \in Payloads, thr \in BOOLEAN : UpstreamMessage(s, p, thr)

\* WebsocketProxy with two ACTIVE sessions, whose registrations are removed.
SpecRemove == InitRemove /\ [][NextRemove]_vars

\* -------------------------------------------------- next() called twice
MaxChain == 3

\* Every session is ACTIVE and three middlewares are registered.
InitTwice ==
    /\ AllActive
    /\ NoBuiltin
    /\ middlewares \in [1..MaxChain -> TwiceCatalogue]

NextTwice ==
    \/ \E s \in Sessions, p \in Payloads, thr \in BOOLEAN : ClientMessage(s, p, thr)
    \/ \E s \in Sessions, p \in Payloads, thr \in BOOLEAN : UpstreamMessage(s, p, thr)
    \/ \E s \in Sessions : ServerClosed(s)
    \/ \E s \in Sessions : UpstreamClosed(s)

\* WebsocketProxy with two ACTIVE sessions and a chain of three middlewares,
\* some of which call next() twice.
SpecTwice == InitTwice /\ [][NextTwice]_vars

\* ----------------------------------------------------------------- WsProxy
\* The record of one message WsProxy handled: it has no pipeline, so the
\* record only says what was sent and what was delivered.
WsHandled(s, dir, sent, out) ==
    [NewRun(s, dir, sent, sent) EXCEPT !.root = "handled", !.active = Active(s), !.out = out]

\* WsProxy.onUpgrade and createUpstreamConnection up to "new Promise".
WsUpgrade(s, url) == Upgrade(s, url)

\* The upstream's 'open' handler: clearTimeout, emit, resolve.
WsUpstreamOpen(s) == UpstreamOpen(s)

\* The upstream's 'close' handler: upstreams.delete, server.close, emit.
WsUpstreamClosed(s) == UpstreamClosed(s)

\* The 10 s timer: reject.
WsTimeout(s) == Timeout(s)

WsServerOpen(s) == ServerOpen(s)

\* WsServer's close callback; WsProxy's 'close' handler only emits
\* 'client:disconnected'.
WsServerClosed(s) ==
    /\ inbound[s] \in {"open", "closing"}
    /\ inbound' = [inbound EXCEPT ![s] = "closed"]
    /\ clients' = clients \ {s}
    /\ UNCHANGED <<ext, emitted, routes, req, href, conns, middlewares, upstreams, upg, link, timer, runs>>

\* WsProxy's 'message' handler: emit 'client:message', then
\* this.upstreams.get(sessionId)?.send(message).
WsClientMessage(s, p) ==
    /\ Len(runs) < MaxRuns
    /\ inbound[s] = "open"
    /\ runs' = Append(runs, WsHandled(s, UPSTREAM, p,
                   IF s \in upstreams /\ link[s] = "open"
                   THEN [to |-> "upstream", sid |-> s, data |-> p]
                   ELSE NoOut))
    /\ UNCHANGED <<ext, emitted, routes, req, href, conns, middlewares, upstreams, clients, upg, inbound, link, timer>>

\* The upstream's 'message' handler: emit 'upstream:message', nothing else.
WsUpstreamMessage(s, p) ==
    /\ Len(runs) < MaxRuns
    /\ link[s] = "open"
    /\ runs' = Append(runs, WsHandled(s, DOWNSTREAM, p, NoOut))
    /\ UNCHANGED <<ext, emitted, routes, req, href, conns, middlewares, upstreams, clients, upg, inbound, link, timer>>

NextWs ==
    \/ \E s \in Sessions, url \in Urls : WsUpgrade(s, url)
    \/ \E s \in Sessions : WsUpstreamOpen(s)
    \/ \E s \in Sessions : WsUpstreamClosed(s)
    \/ \E s \in Sessions : WsTimeout(s)
    \/ \E s \in Sessions : WsServerOpen(s)
    \/ \E s \in Sessions : WsServerClosed(s)
    \/ \E s \in Sessions, p \in Payloads : WsClientMessage(s, p)
    \/ \E s \in Sessions, p \in Payloads : WsUpstreamMessage(s, p)

\* WsProxy (src/websocket/websocket.proxy.ts), two sessions.
SpecWs == Init /\ [][NextWs]_vars

\* ------------------------------------------------------------ the routes
TargetA == Target(Up, <<"/", ":", "a">>)
TargetB == Target(Up, <<"/", "a", "/", ":", "/">>)
\* 'ws://up/constructor': a segment that names an inherited property.
TargetC == Target(Up, <<"/">> \o Constructor)
Targets == {TargetA, TargetB, TargetC, Malformed}
Searches == {<<>>, <<"?", "q">>}

\* The route tables that no call, one call and two calls of route() make;
\* two routes are given the two targets that parse, the first TargetA.
RouteTables ==
    {<<>>}
    \cup {route(<<>>, pattern, target) : pattern \in Paths, target \in Targets}
    \cup {route(route(<<>>, first, TargetA), second, TargetB) : first, second \in Paths}

InitRoute ==
    /\ routes \in RouteTables
    /\ middlewares = <<>>
    /\ upstreams = {}
    /\ clients = {}
    /\ upg = [s \in Sessions |-> "none"]
    /\ inbound = [s \in Sessions |-> "none"]
    /\ link = [s \in Sessions |-> "none"]
    /\ timer = [s \in Sessions |-> "unset"]
    /\ req = [s \in Sessions |-> NoUrl]
    /\ href = [s \in Sessions |-> NoMatch]
    /\ conns = [s \in Sessions |-> 0]
    /\ NoBuiltin
    /\ wsc = NoClients
    /\ removed = <<>>
    /\ emitted = NoEvents
    /\ runs = <<>>

NextRoute ==
    \E path \in Paths, search \in Searches : Upgrade(1, Url(path, search))

\* WebsocketProxy after some calls of route(): the route lookup of an
\* upgrade request.
SpecRoute == InitRoute /\ [][NextRoute]_vars

\* ------------------------------------------------- routes that change
ReroutePatterns == {<<"/", "a", "/", ":", "a">>, <<"/", "a">>}
RerouteTargets == {TargetA, TargetB}

Route(pattern, target) ==
    /\ routes' = route(routes, pattern, target)
    /\ UNCHANGED <<ext, emitted, middlewares, upstreams, clients, upg, inbound, link, timer, req,
                   href, conns, runs>>

Unroute(pattern) ==
    /\ routes' = unroute(routes, pattern)
    /\ UNCHANGED <<ext, emitted, middlewares, upstreams, clients, upg, inbound, link, timer, req,
                   href, conns, runs>>

NextReroute ==
    \/ \E pattern \in ReroutePatterns, target \in RerouteTargets : Route(pattern, target)
    \/ \E pattern \in ReroutePatterns : Unroute(pattern)
    \/ \E s \in Sessions, url \in Urls : Upgrade(s, url)
    \/ \E s \in Sessions : UpstreamOpen(s)
    \/ \E s \in Sessions : UpstreamClosed(s)
    \/ \E s \in Sessions : Timeout(s)
    \/ \E s \in Sessions : ServerOpen(s)
    \/ \E s \in Sessions : ServerClosed(s)

\* WebsocketProxy whose routes are set and removed while sessions come and go.
SpecReroute == Init /\ [][NextReroute]_vars

\* ------------------------------------------- the wrapper used on its own
NClients == 2
MaxSends == 2
MaxCloses == 2
ClientIds == 1..NClients

\* Two wrappers have been constructed, each with some URL; no proxy is used.
InitClient ==
    /\ routes = RouteTable
    /\ middlewares = <<>>
    /\ upstreams = {}
    /\ clients = {}
    /\ upg = [s \in Sessions |-> "none"]
    /\ inbound = [s \in Sessions |-> "none"]
    /\ link = [s \in Sessions |-> "none"]
    /\ timer = [s \in Sessions |-> "unset"]
    /\ req = [s \in Sessions |-> NoUrl]
    /\ href = [s \in Sessions |-> NoMatch]
    /\ conns = [s \in Sessions |-> 0]
    /\ NoBuiltin
    /\ wsc \in {[n \in ClientIds |-> connect(urls[n])] : urls \in [ClientIds -> ClientUrls]}
    /\ removed = <<>>
    /\ emitted = NoEvents
    /\ runs = <<>>

Proxy == <<routes, middlewares, upstreams, clients, upg, inbound, link, timer, req, href,
           conns, counts, authenticated, now, limit, removed, emitted, runs>>

\* The connection is established: the socket is open and its onopen runs.
SocketOpened(n) ==
    /\ wsc[n].ready = "connecting" /\ wsc[n].url = "reachable"
    /\ wsc' = [wsc EXCEPT ![n] = onopen([@ EXCEPT !.ready = "open"])]
    /\ UNCHANGED Proxy

\* The connection fails, before or after it was established: the socket is
\* closed, its onerror runs and then its onclose.
SocketFailed(n) ==
    /\ wsc[n].ready \in {"connecting", "open"}
    /\ wsc' = [wsc EXCEPT ![n] = onclose(onerror([@ EXCEPT !.ready = "closed"]))]
    /\ UNCHANGED Proxy

\* The connection is closed, by the peer or after the socket's close(): its
\* onclose runs.
SocketClosed(n) ==
    /\ wsc[n].ready \in {"open", "closing"}
    /\ wsc' = [wsc EXCEPT ![n] = onclose([@ EXCEPT !.ready = "closed"])]
    /\ UNCHANGED Proxy

Send(n) ==
    /\ wsc[n].sends < MaxSends
    /\ wsc' = [wsc EXCEPT ![n] = send(@)]
    /\ UNCHANGED Proxy

Close(n) ==
    /\ wsc[n].closeCalls < MaxCloses
    /\ wsc' = [wsc EXCEPT ![n] = close(@)]
    /\ UNCHANGED Proxy

NextClient ==
    \/ \E n \in ClientIds : SocketOpened(n)
    \/ \E n \in ClientIds : SocketFailed(n)
    \/ \E n \in ClientIds : SocketClosed(n)
    \/ \E n \in ClientIds : Send(n)
    \/ \E n \in ClientIds : Close(n)

\* Two WsClient / WebsocketClient wrappers and their callers.
SpecClient == InitClient /\ [][NextClient]_vars

\* The close of a socket whose close() was called.
SocketCloseDone(n) == wsc[n].ready = "closing" /\ SocketClosed(n)

\* A socket that is closing is closed in the end and its onclose is run; a
\* socket that is open may stay so.
SpecClientFair == SpecClient /\ \A n \in ClientIds : WF_vars(SocketCloseDone(n))

\* ================================================================ claims
Peer(dir) == IF dir = UPSTREAM THEN "upstream" ELSE "client"

Run(k) == runs[k]
RunIds == 1..Len(runs)

\* Every middleware call of run r has returned or thrown, and so has
\* processMessage.
RunOver(r) ==
    /\ r.root # "pending"
    /\ \A i \in 1..Len(r.frames) : r.frames[i].st \in {"done", "fail"}

Threw(r) == \E i \in 1..Len(r.frames) : r.frames[i].st = "fail"

\* A middleware that neither drops, nor changes the message, nor throws.
Transparent(m) == \A j \in 1..Len(m.body) : m.body[j] \in {"next", "nextNoAwait", "wait"}

\* C1: a message is handed to forwardMessage if and only if the chain ran to
\* its end (every middleware called next()) and drop() was never called; a
\* middleware that returns without next() and without drop() prevents
\* forwarding.
C1_ForwardIffChainCompleted ==
    \A k \in RunIds :
        Run(k).root # "pending" =>
            (Run(k).root = "handed" <=> (Run(k).ended /\ ~Run(k).dropped))

\* C2: a message on which some middleware called drop(), at any point of the
\* run, is delivered to neither peer, and 'message:dropped' is emitted exactly
\* once for it.
C2_DroppedNeverDeliveredEmittedOnce ==
    \A k \in RunIds :
        Run(k).dropped =>
            /\ Run(k).out = NoOut
            /\ Run(k).nDropped <= 1
            /\ RunOver(Run(k)) => Run(k).nDropped = 1

\* C3: when createUpstreamConnection fails during an upgrade, the upgrade is
\* rejected, no inbound session exists, and the registry holds no entry for
\* that sessionId from then on.
C3_RejectedUpgradeLeavesNoEntry ==
    \A s \in Sessions :
        upg[s] = "rejected" => (inbound[s] = "none" /\ s \notin upstreams)

\* C4: for an ACTIVE session, the close of the inbound client closes the
\* upstream link, the close of the upstream link closes the inbound client,
\* both remove the sessionId from the registry, and no entry of a closed
\* session remains.
C4_ClosePropagates ==
    /\ [](\A s \in Sessions :
            (inbound[s] = "closed" \/ link[s] = "closed") => s \notin upstreams)
    /\ [][\A s \in Sessions :
            Active(s) =>
                /\ inbound'[s] = "closed" =>
                      (link'[s] \in {"closing", "closed"} /\ s \notin upstreams')
                /\ link'[s] = "closed" =>
                      (inbound'[s] \in {"closing", "closed"} /\ s \notin upstreams')]_vars

\* C4 witness: one session was closed by its client and its upstream link is
\* being closed, another lost its upstream link and its client is being closed.
C4_Witness ==
    /\ \E s \in Sessions :
          inbound[s] = "closed" /\ link[s] = "closing" /\ s \notin upstreams
    /\ \E s \in Sessions :
          link[s] = "closed" /\ inbound[s] = "closing" /\ s \notin upstreams

\* C5: for one session and one direction the pipeline run of a message does
\* not start before the run of the message before it has finished.
C5_OneRunAtATime ==
    \A j, k \in RunIds :
        (j < k /\ Run(j).sid = Run(k).sid /\ Run(j).dir = Run(k).dir) =>
            Run(j).root # "pending"

\* C6: with no middleware that modifies or drops, a message of an ACTIVE
\* session that the pipeline passed is delivered to the opposite peer of the
\* same session with the payload its sender sent.
C6_DeliveredUnchanged ==
    (\A i \in 1..Len(middlewares) : Transparent(middlewares[i])) =>
        \A k \in RunIds :
            Run(k).active =>
                Run(k).out = [to |-> Peer(Run(k).dir), sid |-> Run(k).sid,
                              data |-> Run(k).sent]

\* C7: WsProxy forwards every message of the upstream link of an ACTIVE
\* session to its inbound client, and every message of the inbound client to
\* its upstream link.
C7_WsProxyForwardsBothWays ==
    \A k \in RunIds :
        (Run(k).root = "handled" /\ Run(k).active) =>
            Run(k).out = [to |-> Peer(Run(k).dir), sid |-> Run(k).sid,
                          data |-> Run(k).sent]

\* C8: in WsProxy, once the inbound client of a session has closed, its
\* upstream link is closed and its sessionId is not in the registry.
C8_WsProxyClientCloseClosesUpstream ==
    \A s \in Sessions :
        inbound[s] = "closed" =>
            (link[s] \notin {"connecting", "open"} /\ s \notin upstreams)

\* C9: when a middleware throws, the message is not forwarded and, once
\* processMessage has ended, 'middleware:error' has been emitted once for it.
C9_ThrowAbortsRun ==
    \A k \in RunIds :
        Threw(Run(k)) =>
            /\ Run(k).root # "handed"
            /\ Run(k).out = NoOut
            /\ Run(k).root # "pending" => (Run(k).root = "error" /\ Run(k).nError = 1)

\* C10: for every message of either direction the middlewares are invoked in
\* the order of their registration: the calls a run has made are, in order,
\* the first registered middlewares, none before the one registered before it.
C10_RegistrationOrder ==
    \A k \in RunIds :
        /\ Len(Run(k).frames) <= Len(middlewares)
        /\ \A i \in 1..Len(Run(k).frames) : Run(k).frames[i].mw = middlewares[i]

\* C10 witness: a message of each direction went through two different
\* middlewares.
C10_Witness ==
    \E j, k \in RunIds :
        /\ Run(j).dir = UPSTREAM /\ Run(k).dir = DOWNSTREAM
        /\ Len(Run(j).frames) = 2 /\ Len(Run(k).frames) = 2
        /\ Run(j).frames[1].mw # Run(j).frames[2].mw

\* The guard of middleware i of run r matches the run's context.
Matched(r, i) == FilterMatches(r.frames[i].mw.filter, r)

IsPrefix(a, b) == Len(a) <= Len(b) /\ a = SubSeq(b, 1, Len(a))

\* C11: once drop() was called for a message, no further middleware is
\* invoked for it, whoever calls next() afterwards; the calls made before
\* the drop stay as they were.
C11_NoCallAfterDrop ==
    /\ [](\A k \in RunIds : Run(k).dropped => Len(Run(k).frames) = Run(k).atDrop)
    /\ [][\A k \in RunIds :
            Run(k).dropped =>
                /\ Len(runs'[k].frames) = Len(Run(k).frames)
                /\ \A i \in 1..Len(Run(k).frames) :
                       /\ runs'[k].frames[i].mw = Run(k).frames[i].mw
                       /\ IsPrefix(Run(k).frames[i].ops, runs'[k].frames[i].ops)]_vars

\* C11 witness: a middleware dropped and then called next() while a later
\* middleware was registered, and that one was not called.
C11_Witness ==
    \E k \in RunIds :
        /\ Run(k).dropped
        /\ Len(Run(k).frames) < Len(middlewares)
        /\ \E i \in 1..Len(Run(k).frames) : Run(k).frames[i].ops = <<"drop", "next">>

\* C12: a guarded middleware whose guard does not match the message only
\* calls next(): the wrapped middleware takes no step, and a message no
\* guard matched is neither dropped nor changed; when the guard matches, the
\* steps taken are those of the wrapped middleware.
C12_GuardedPassThrough ==
    \A k \in RunIds :
        /\ \A i \in 1..Len(Run(k).frames) :
               IF Matched(Run(k), i)
               THEN IsPrefix(Run(k).frames[i].ops, Run(k).frames[i].mw.body)
               ELSE /\ IsPrefix(Run(k).frames[i].ops, <<"next">>)
                    /\ Run(k).frames[i].st = "done" => Run(k).frames[i].ops = <<"next">>
        /\ (\A i \in 1..Len(Run(k).frames) : ~Matched(Run(k), i)) =>
               (~Run(k).dropped /\ Run(k).msg = createMessage(Run(k).raw))

\* C12 witness: one guarded middleware let a message of the other direction
\* pass and it was forwarded, and dropped a message of its own direction.
C12_Witness ==
    \E j, k \in RunIds :
        /\ Run(j).frames # <<>> /\ Run(k).frames # <<>>
        /\ Run(j).frames[1].mw = MwUpDrop /\ Run(k).frames[1].mw = MwUpDrop
        /\ Run(j).dir = DOWNSTREAM /\ Run(j).frames[1].ops = <<"next">>
        /\ Run(j).root = "handed" /\ ~Run(j).dropped
        /\ Run(k).dir = UPSTREAM /\ Run(k).frames[1].ops = <<"drop">>
        /\ Run(k).root = "dropped"

\* C20: an upstream-bound message that passed the pipeline while no upstream
\* is registered for its session is sent nowhere, the inbound socket of the
\* session is closed with the close code forwardMessage gives (1011), and
\* processMessage does not fail.
C20_LostUpstreamClosesWithCode ==
    \A k \in RunIds :
        Run(k).lost =>
            /\ Run(k).out = NoOut
            /\ Run(k).root = "handed"
            /\ Run(k).sid \in clients => Run(k).closeArgs = "1011"

\* C13: a request whose path matches no route makes no upstream connection
\* and no registry entry, is not upgraded, and its session never gets an
\* 'open'.
C13_NoRouteNoSession ==
    \A s \in Sessions :
        upg[s] = "noroute" =>
            /\ findRoute(routes, req[s]) = 0
            /\ conns[s] = 0 /\ link[s] = "none" /\ timer[s] = "unset"
            /\ s \notin upstreams
            /\ inbound[s] = "none" /\ s \notin clients

\* C13 witness: the first request matched no route and was turned away, the
\* one after it matched and its session is ACTIVE.
C13_Witness ==
    /\ upg[1] = "noroute" /\ findRoute(routes, req[1]) = 0
    /\ upg[2] = "accepted" /\ Active(2)

\* C14: a session has at most one upstream connection, made by the one
\* attempt of its upgrade: no second WsClient is ever created for a
\* sessionId, whatever became of the first.
C14_OneUpstreamPerSession ==
    \A s \in Sessions :
        /\ conns[s] <= 1
        /\ (link[s] # "none" \/ s \in upstreams) => conns[s] = 1

\* C14 witness: the connection of one session failed and was not made again
\* while another session went through its whole life.
C14_Witness ==
    \E s, t \in Sessions :
        /\ upg[s] = "rejected" /\ link[s] = "closed" /\ conns[s] = 1
        /\ upg[t] = "accepted" /\ link[t] = "closed" /\ inbound[t] = "closed"
        /\ conns[t] = 1

\* The run of index k was started or went on in this step.
Stepped(k) == k > Len(runs) \/ runs'[k] # runs[k]

\* C15: a step that processes a message of one session (a throw, a drop, a
\* missing upstream and a failed send included) leaves the registry entry,
\* the inbound socket and the upstream link of every other session as they
\* were, and an upstream-bound message of an ACTIVE session that passed the
\* pipeline is forwarded to its own upstream.
C15_FailureIsolation ==
    /\ [][\A k \in 1..Len(runs') :
            Stepped(k) =>
                \A b \in Sessions \ {runs'[k].sid} :
                    /\ inbound'[b] = inbound[b]
                    /\ link'[b] = link[b]
                    /\ (b \in upstreams') = (b \in upstreams)
                    /\ (b \in clients') = (b \in clients)]_vars
    /\ [](\A k \in RunIds :
            (Run(k).dir = UPSTREAM /\ Run(k).root = "handed" /\ Run(k).active) =>
                Run(k).out = [to |-> "upstream", sid |-> Run(k).sid, data |-> Run(k).msg.data])

\* C15 witness: a message of one session failed (its middleware threw, or
\* its forwarding closed the session) and after it a message of another
\* session, still ACTIVE, was forwarded.
C15_Witness ==
    \E j, k \in RunIds :
        /\ j < k /\ Run(j).sid # Run(k).sid
        /\ Run(j).root = "error" \/ Run(j).lost
        /\ Run(k).out.to = "upstream" /\ Active(Run(k).sid)

\* The upgrade request of session s is handled in this step.
Requested(s) == upg[s] = "none" /\ upg'[s] # "none"

Parts(s) == filterBoolean(split(s))

\* C16: findRoute matches a path against a pattern exactly when, both split
\* on '/' with the empty segments discarded, they have as many segments and
\* every segment of the pattern equals the path's or starts with ':'.
C16_MatchIsSegmentRule ==
    [][\A s \in Sessions :
          Requested(s) =>
              \A i \in 1..Len(routes) :
                  (findRoute(<<routes[i]>>, req'[s]) = 1) <=>
                      PartsMatch(Parts(routes[i].pattern), Parts(req'[s].path))]_vars

\* The entries of the table that findRoute's test accepts for url.
Accepted(rs, url) == {i \in 1..Len(rs) : findRoute(<<rs[i]>>, url) = 1}

\* C17: findRoute returns the first inserted of the routes that match the
\* path, and none when no route matches.
C17_FirstInsertedWins ==
    [][\A s \in Sessions :
          Requested(s) =>
              LET found == Accepted(routes, req'[s]) IN
              findRoute(routes, req'[s]) =
                  IF found = {} THEN 0
                  ELSE CHOOSE i \in found : \A j \in found : i <= j]_vars

\* C18: for a matching route the upstream URL is the target's origin, then
\* the segments of the target's path, each ':name' segment the pattern
\* captured replaced by the path's segment at the place of that token and
\* every other segment as it is, then the search of the request.
C18_SubstitutedTarget ==
    [][\A s \in Sessions :
          (Requested(s) /\ upg'[s] = "pending") =>
              LET k == findRoute(routes, req'[s])
                  routeParts == Parts(RouteUrl(routes[k].pattern).pathname)
                  pathParts == Parts(req'[s].path)
                  targetParts == Parts(routes[k].target.path)
                  out == Parts(href'[s].path)
              IN  /\ href'[s].match
                  /\ href'[s].origin = routes[k].target.origin
                  /\ href'[s].search = req'[s].search
                  /\ href'[s].path = <<"/">> \o join(out)
                  /\ Len(out) = Len(targetParts)
                  /\ \A n \in 1..Len(out) :
                         IF \E i \in 1..Len(routeParts) :
                                startsWithColon(routeParts[i]) /\ routeParts[i] = targetParts[n]
                         THEN \E i \in 1..Len(routeParts) :
                                  /\ routeParts[i] = targetParts[n]
                                  /\ out[n] = pathParts[i]
                         ELSE out[n] = targetParts[n]]_vars

\* C19: the route lookup of an upgrade never throws: a pattern, a request URL
\* or a target that is not a URL gives "no match".
C19_LookupNeverThrows ==
    \A s \in Sessions : upg[s] # "threw"

\* C21: when the send of forwardMessage throws, the message is delivered to
\* nobody and not sent again, processMessage ends without an error, the
\* socket of the peer the send was for is closed, and in the end that socket
\* has closed, the other side is closed and the session is out of the
\* registry.
C21_SendFailureClosesSession ==
    /\ [](\A k \in RunIds :
            Run(k).failed =>
                /\ Run(k).out = NoOut
                /\ Run(k).root = "handed" /\ Run(k).nError = 0
                /\ inbound[Run(k).sid] \in {"closing", "closed"})
    /\ \A k \in 1..MaxRuns :
           (k \in RunIds /\ Run(k).failed) ~>
               (/\ k \in RunIds
                /\ inbound[Run(k).sid] = "closed"
                /\ link[Run(k).sid] \in {"closing", "closed"}
                /\ Run(k).sid \notin upstreams)

\* C21 witness: the send to the client of an ACTIVE session threw; the
\* client's socket has closed, the upstream link is being closed and the
\* registry has no entry of the session.
C21_Witness ==
    \E k \in RunIds :
        /\ Run(k).failed /\ Run(k).active /\ Run(k).dir = DOWNSTREAM
        /\ inbound[Run(k).sid] = "closed"
        /\ link[Run(k).sid] = "closing"
        /\ Run(k).sid \notin upstreams

\* A middleware call of run r is suspended and processMessage has not ended.
Suspended(r) ==
    /\ r.root = "pending"
    /\ \E i \in 1..Len(r.frames) : r.frames[i].st = "wait"

\* No registered middleware holds, drops or changes the message of run r.
PassesAll(r) ==
    \A i \in 1..Len(middlewares) :
        \/ middlewares[i].body = <<"next">>
        \/ middlewares[i].filter = "session1" /\ r.sid # 1

\* C22: while a middleware call for a message of session A is suspended, a
\* message of another ACTIVE session B that arrives is processed in the task
\* of its arrival: A's run stays as it is, every middleware is called for
\* B's message, the message is handed to forwardMessage, and a message of
\* B's client is delivered to B's upstream.
C22_StuckSessionDoesNotBlock ==
    [][\A k \in 1..Len(runs') :
          (/\ k > Len(runs)
           /\ Active(runs'[k].sid)
           /\ PassesAll(runs'[k])
           /\ \E j \in RunIds : Run(j).sid # runs'[k].sid /\ Suspended(Run(j))) =>
              /\ \A j \in RunIds : runs'[j] = Run(j)
              /\ Len(runs'[k].frames) = Len(middlewares)
              /\ \A i \in 1..Len(runs'[k].frames) : runs'[k].frames[i].st = "done"
              /\ runs'[k].root = "handed"
              /\ runs'[k].dir = UPSTREAM =>
                     runs'[k].out = [to |-> "upstream", sid |-> runs'[k].sid,
                                     data |-> runs'[k].sent]
              /\ runs'[k].dir = DOWNSTREAM =>
                     \/ runs'[k].failed
                     \/ runs'[k].out.to = "client" /\ runs'[k].out.sid = runs'[k].sid]_vars

\* C22 witness: the run of a message of the first session is suspended in
\* the stuck middleware, and a message of the second session that came
\* after it went through that middleware and was delivered to its upstream.
C22_Witness ==
    \E j, k \in RunIds :
        /\ j < k /\ Run(j).sid = 1 /\ Run(k).sid = 2
        /\ Suspended(Run(j))
        /\ Run(k).frames # <<>> /\ Run(k).frames[1].mw = MwStuck
        /\ Run(k).root = "handed"
        /\ Run(k).out = [to |-> "upstream", sid |-> 2, data |-> Run(k).sent]

\* The peer a message of run r is for has closed or is closing.
PeerGone(r) ==
    IF r.dir = UPSTREAM
    THEN link[r.sid] # "open" \/ r.sid \notin upstreams
    ELSE inbound[r.sid] # "open"

\* C23: when the inbound client or the upstream link of a session has closed
\* while a middleware call for one of its messages was suspended, the call
\* goes on when what it awaited has settled; the run raises no error of its
\* own, what it hands to forwardMessage is delivered to no peer that has
\* closed, and the step changes neither the registry, nor the clients map,
\* nor the upstream link.
C23_RunCompletesAfterClose ==
    [][\A k \in RunIds :
          (/\ runs'[k] # Run(k)
           /\ inbound[Run(k).sid] \in {"closing", "closed"}
                  \/ link[Run(k).sid] \in {"closing", "closed"}) =>
              /\ \E i \in 1..Len(Run(k).frames) :
                     /\ Run(k).frames[i].st = "wait"
                     /\ runs'[k].frames[i].st # "wait"
                     /\ runs'[k].frames[i].pc > Run(k).frames[i].pc
              /\ runs'[k].cur = 0
              /\ ~Threw(runs'[k]) => (runs'[k].nError = 0 /\ runs'[k].root # "error")
              /\ PeerGone(Run(k)) => runs'[k].out = Run(k).out
              /\ upstreams' = upstreams /\ clients' = clients /\ link' = link
              /\ inbound'[Run(k).sid] \in {inbound[Run(k).sid], "closing"}]_vars

\* C23 witness: a message of the client was suspended in a middleware, the
\* client closed, and the run then came to its end: handed to forwardMessage,
\* which found no upstream and delivered nothing.
C23_Witness ==
    \E k \in RunIds :
        /\ Run(k).dir = UPSTREAM /\ Run(k).root = "handed" /\ RunOver(Run(k))
        /\ \E i \in 1..Len(Run(k).frames) : Run(k).frames[i].ops = <<"wait", "next">>
        /\ Run(k).lost /\ Run(k).out = NoOut /\ Run(k).nError = 0
        /\ inbound[Run(k).sid] = "closed" /\ Run(k).sid \notin upstreams
        /\ link[Run(k).sid] = "closing"

\* The runs of the messages of one session and one direction.
SameKey(j, k) == Run(j).sid = Run(k).sid /\ Run(j).dir = Run(k).dir

\* The message of the same session and direction that came before that of
\* run k (0: none).
PrevOfKey(k) ==
    IF \E j \in 1..(k - 1) : SameKey(j, k)
    THEN CHOOSE j \in 1..(k - 1) :
             SameKey(j, k) /\ \A i \in (j + 1)..(k - 1) : ~SameKey(i, k)
    ELSE 0

\* The time at which the window of the message of run k started: its own
\* time when it is the first of its key or came after the window of the
\* message before it had expired.
RECURSIVE WindowStart(_)
WindowStart(k) ==
    LET j == PrevOfKey(k) IN
    IF j = 0 THEN Run(k).at
    ELSE IF Run(k).at > WindowStart(j) + limit.windowMs THEN Run(k).at
    ELSE WindowStart(j)

InWindow(k) == {j \in RunIds : SameKey(j, k) /\ WindowStart(j) = WindowStart(k)}

\* rateLimit called next() for the message of run k.
PassedOn(k) == Run(k).frames # <<>> /\ Run(k).frames[1].ops = <<"next">>

\* C24: with rateLimit(maxMessages, windowMs) registered, for every session
\* and direction at most maxMessages messages of one window are passed on,
\* the messages that come in the window after that are dropped and no other
\* is, and the first message of a window is passed on; the windows and the
\* counts are those of the session and direction of the message alone.
C24_RateLimitWindow ==
    \A k \in RunIds :
        LET passedBefore == {j \in InWindow(k) : j < k /\ PassedOn(j)}
            first == \A j \in InWindow(k) : k <= j
        IN  /\ Cardinality({j \in InWindow(k) : PassedOn(j)}) <= limit.maxMessages
            /\ (~first /\ Cardinality(passedBefore) >= limit.maxMessages) =>
                   (Run(k).dropped /\ ~PassedOn(k))
            /\ Run(k).dropped => Cardinality(passedBefore) >= limit.maxMessages
            /\ first => (PassedOn(k) /\ ~Run(k).dropped)

\* C25: once a session has closed, rateLimit has no counter of a key of its
\* sessionId and auth has not its sessionId in the authenticated set.
C25_ClosedSessionLeavesNoState ==
    \A s \in Sessions :
        (inbound[s] = "closed" /\ link[s] \in {"closing", "closed"}) =>
            /\ \A dir \in {UPSTREAM, DOWNSTREAM} : RateKey(s, dir) \notin DOMAIN counts
            /\ s \notin authenticated

\* C26: jsonTransform(transformer) calls next() for every message; the data
\* of a text message that parses as JSON becomes JSON.stringify of what the
\* transformer returns for the parsed value, and the data of a text message
\* that does not parse stays what it was.
C26_JsonTransform ==
    \A k \in RunIds :
        (middlewares[1].body[1] \in JsonOps) =>
            LET r == Run(k)
                op == middlewares[1].body[1]
                parsed == JSONparse(r.raw)
                made == transformer(op, parsed.val)
            IN  /\ r.frames[1].ops[Len(r.frames[1].ops)] = "next"
                /\ r.ended /\ r.root = "handed" /\ ~r.dropped
                /\ createMessage(r.raw).type = "text" =>
                       /\ r.frames[1].ops = <<op, "next">>
                       /\ (parsed.ok /\ made.ok) => r.msg.data = JSONstringify(made.val)
                       /\ ~parsed.ok => r.msg.data = r.raw

\* C26 witness: with the transformer x => x the text " 1" went on as "1",
\* and the text "a", which is not JSON, went on as it was.
C26_Witness ==
    /\ middlewares = <<MwJson("json:x")>>
    /\ \E j, k \in RunIds :
           /\ Run(j).raw = Str(" 1") /\ Run(j).msg.data = Str("1")
           /\ Run(j).out = [to |-> "upstream", sid |-> Run(j).sid, data |-> Str("1")]
           /\ Run(k).raw = Str("a") /\ Run(k).msg.data = Str("a")
           /\ Run(k).out = [to |-> "upstream", sid |-> Run(k).sid, data |-> Str("a")]

\* The entries of table rs whose pattern is not p, in their order.
Others(rs, p) == SelectSeq(rs, LAMBDA r : r.pattern # p)

\* C27: a step that changes the route table is a route(pattern, target),
\* after which the table has the one entry pattern -> target and its other
\* entries as before, or an unroute(pattern), after which it has no entry of
\* the pattern; the step leaves the registry, the sockets and the upstream
\* URL of every session as they were; and an upgrade is looked up in the
\* table as the changes before it have left it.
C27_RouteChangeFrame ==
    [][/\ routes' # routes =>
            /\ upstreams' = upstreams /\ clients' = clients
            /\ link' = link /\ inbound' = inbound
            /\ href' = href /\ upg' = upg /\ conns' = conns
            /\ \/ \E p \in ReroutePatterns, t \in RerouteTargets :
                      /\ Others(routes', p) = Others(routes, p)
                      /\ Len(routes') = Len(Others(routes, p)) + 1
                      /\ \E i \in 1..Len(routes') : routes'[i] = RouteConfig(p, t)
               \/ \E p \in ReroutePatterns :
                      /\ routes' = Others(routes, p)
                      /\ \A i \in 1..Len(routes') : routes'[i].pattern # p
       /\ \A s \in Sessions :
              Requested(s) =>
                  LET k == findRoute(routes, req'[s]) IN
                  IF k <= 0
                  THEN upg'[s] \in {"noroute", "threw"} /\ s \notin upstreams'
                  ELSE LET m == matchRoute(routes[k].pattern, req'[s], routes[k].target)
                       IN  m.match => (upg'[s] = "pending" /\ href'[s] = m)]_vars

\* C27 witness: the first session was established through the route to one
\* target and is ACTIVE with the URL it was given; the route was then set to
\* another target, and the second session is connecting to that one.
C27_Witness ==
    /\ Active(1) /\ req[1] = req[2] /\ upg[2] = "pending"
    /\ href[1].path = <<"/", ":">>
    /\ href[2].path = <<"/", "a", "/", ":">>
    /\ routes = <<RouteConfig(<<"/", "a", "/", ":", "a">>, TargetB)>>

\* The upgrade handler of session s has rejected.
HandlerRejected(s) == upg[s] \in {"rejected", "noroute", "threw"}

\* C28: WsServer upgrades a request only when its upgrade handler has
\* resolved: a session has an inbound socket, and 'open', 'message' and
\* 'close' events, only once its handler has resolved, the socket is made in
\* the step in which the handler resolves, and a session whose handler
\* rejected never has a socket nor an event.
C28_UpgradeAfterHandler ==
    /\ [](\A s \in Sessions :
            /\ (inbound[s] # "none" \/ s \in clients) => upg[s] = "accepted"
            /\ HandlerRejected(s) => (inbound[s] = "none" /\ s \notin clients))
    /\ [](\A k \in RunIds : Run(k).dir = UPSTREAM => upg[Run(k).sid] = "accepted")
    /\ [][\A s \in Sessions :
            /\ inbound'[s] # inbound[s] =>
                   (upg'[s] = "accepted" /\ (inbound[s] = "none" <=> upg[s] # "accepted"))
            /\ HandlerRejected(s) => (upg'[s] = upg[s] /\ inbound'[s] = "none")]_vars

\* C28 witness: the handler of the first request rejected on the timeout
\* and the upstream opened afterwards: the request has no socket; the second
\* request was upgraded after its handler resolved, and its client has sent
\* a message.
C28_Witness ==
    /\ upg[1] = "rejected" /\ link[1] = "open" /\ inbound[1] = "none"
    /\ upg[2] = "accepted" /\ inbound[2] = "open"
    /\ \E k \in RunIds : Run(k).sid = 2 /\ Run(k).dir = UPSTREAM

\* C29: the context of every message of a session has, as its metadata, the
\* metadata of the route the session was established through.
C29_RouteMetadataInContext ==
    \A k \in RunIds :
        LET i == findRoute(routes, req[Run(k).sid]) IN
        (i > 0 /\ routes[i].metadata.defined) => Run(k).metadata = routes[i].metadata

\* forwardMessage is called for run k in this step.
Handed(k) ==
    /\ k \in 1..Len(runs')
    /\ runs'[k].root = "handed"
    /\ k > Len(runs) \/ runs[k].root # "handed"

\* C30: the clients map of WsServer holds a sessionId from the 'open' of its
\* socket to its 'close'; send(sessionId, message) delivers the message to
\* the open socket of that sessionId and to no other; send and close for a
\* sessionId that is not in the map deliver nothing, close nothing and do
\* not throw.
C30_SendToOwnClient ==
    /\ [](clients = {s \in Sessions : inbound[s] \in {"open", "closing"}})
    /\ [](\A k \in RunIds : Run(k).out.to = "client" => Run(k).out.sid = Run(k).sid)
    /\ [][\A k \in 1..Len(runs') :
            (Handed(k) /\ runs'[k].dir = DOWNSTREAM) =>
                LET s == runs'[k].sid IN
                /\ (s \in clients /\ inbound[s] = "open" /\ runs'[k].msg.data # Undefined) =>
                       runs'[k].out = [to |-> "client", sid |-> s, data |-> runs'[k].msg.data]
                /\ s \notin clients =>
                       (runs'[k].out = NoOut /\ ~runs'[k].failed /\ inbound' = inbound)]_vars
    /\ [][\A s \in Sessions :
            (s \notin clients /\ inbound'[s] # inbound[s]) =>
                \/ inbound[s] = "none" /\ inbound'[s] = "upgraded"
                \/ inbound[s] = "upgraded" /\ inbound'[s] = "open" /\ s \in clients']_vars

\* C30 witness: a message of the upstream was sent to the open client of its
\* session, and another was handed over after the client had closed: it was
\* delivered to nobody and the send did not throw.
C30_Witness ==
    \E j, k \in RunIds :
        /\ Run(j).dir = DOWNSTREAM /\ Run(k).dir = DOWNSTREAM
        /\ Run(k).out = [to |-> "client", sid |-> Run(k).sid, data |-> Transformed]
        /\ Run(j).root = "handed" /\ Run(j).out = NoOut /\ ~Run(j).failed
        /\ Run(j).msg.data = Transformed
        /\ inbound[Run(j).sid] = "closed" /\ Run(j).sid \notin clients
        /\ Run(k).sid # Run(j).sid /\ Active(Run(k).sid)

\* C31: connected is true only from the 'open' event to the next close: it
\* is false before 'open', false once close() was called, false once the
\* socket has closed or failed (a URL that cannot be reached included), and
\* after close() the 'close' event is emitted in the end.
C31_ConnectedOnlyWhileOpen ==
    /\ [](\A n \in ClientIds :
            /\ connected(wsc[n]) =>
                   /\ wsc[n].opens = 1 /\ wsc[n].closes = 0 /\ wsc[n].closeCalls = 0
                   /\ wsc[n].ready = "open" /\ wsc[n].url = "reachable"
            /\ wsc[n].closes <= 1 /\ wsc[n].opens <= 1)
    /\ \A n \in ClientIds : (wsc[n].closeCalls > 0) ~> (wsc[n].closes > 0)

\* The call of send() this step makes on wrapper n.
Sent(n) == wsc'[n].sends = wsc[n].sends + 1

\* C32: send() on a wrapper whose socket is not open (before 'open', after
\* close(), after the socket has closed) gives nothing to the socket, does
\* not throw, and connected is false before and after it.
C32_SendWhenNotOpen ==
    [][\A n \in ClientIds :
          (Sent(n) /\ ~(wsc[n].ws = "socket" /\ wsc[n].ready = "open")) =>
              /\ wsc'[n].transmitted = wsc[n].transmitted
              /\ ~wsc'[n].threw
              /\ ~connected(wsc[n]) /\ ~connected(wsc'[n])
              /\ wsc'[n] = [wsc[n] EXCEPT !.sends = @ + 1]]_vars

\* C32 witness: one wrapper sent before its socket was open and again after
\* close(), and nothing was transmitted; the other sent while open.
C32_Witness ==
    \E n, k \in ClientIds :
        /\ wsc[n].sends = 2 /\ wsc[n].transmitted = 0 /\ wsc[n].closeCalls = 1
        /\ wsc[n].opens = 1 /\ ~wsc[n].threw
        /\ wsc[k].sends = 1 /\ wsc[k].transmitted = 1

\* Every middleware run r has called awaits its next().
AllAwait(r) ==
    \A i \in 1..Len(r.frames) :
        \A j \in 1..Len(r.frames[i].mw.body) : r.frames[i].mw.body[j] # "nextNoAwait"

\* C33: when every middleware awaits next(), a message is handed to
\* forwardMessage only after every middleware called for it has returned,
\* the code after its next() run to its end; what is sent is the message as
\* that code left it; and when a middleware dropped the message, the code
\* after next() of those before it has run and nothing is sent.
C33_ForwardAfterAllReturned ==
    \A k \in RunIds :
        AllAwait(Run(k)) =>
            /\ Run(k).root \in {"handed", "dropped"} =>
                   \A i \in 1..Len(Run(k).frames) :
                       /\ Run(k).frames[i].st = "done"
                       /\ Run(k).frames[i].ops = Body(Run(k).frames[i].mw, Run(k))
            /\ Run(k).out # NoOut =>
                   (Run(k).root = "handed" /\ Run(k).out.data = Run(k).msg.data)
            /\ (Run(k).dropped /\ Run(k).root # "pending") =>
                   (Run(k).root = "dropped" /\ Run(k).out = NoOut)

\* C33 witness: a message went through a middleware that changes it after
\* its next() and a slow one, and was sent as changed; another went through
\* the same and a middleware that dropped it: the code after next() has run
\* and nothing was sent.
C33_Witness ==
    \E j, k \in RunIds :
        /\ Run(j).frames # <<>> /\ Run(j).frames[1].ops = <<"next", "set">>
        /\ Run(j).sent = Str("a")
        /\ Run(j).out = [to |-> "upstream", sid |-> 1, data |-> Transformed]
        /\ Len(Run(k).frames) = 2
        /\ Run(k).frames[1].ops = <<"next", "set">>
        /\ Run(k).frames[2].ops = <<"wait", "drop">>
        /\ Run(k).root = "dropped" /\ Run(k).out = NoOut
        /\ Run(k).msg.data = Transformed

\* C34: when the upstream link of a session closes after its upgrade was
\* accepted, be it before the open callback of the inbound socket has put
\* the client into WsServer's clients map, the inbound client is closed in
\* the end.
C34_UpstreamCloseClosesClient ==
    \A s \in Sessions :
        (upg[s] = "accepted" /\ link[s] = "closed") ~>
            (inbound[s] \in {"closing", "closed"})

\* The middleware calls that the next() calls of frame i of run r have made.
CalledBy(r, i) == {j \in 1..Len(r.frames) : r.frames[j].parent = i}

\* C35: for one message every registered middleware is called at most once,
\* also when a middleware calls next() more than once, and a second next()
\* of a middleware calls no middleware: the calls a middleware's next() has
\* made are at most the one of its first next().
C35_NextTwiceCallsNothing ==
    \A k \in RunIds :
        /\ \A i, j \in 1..Len(Run(k).frames) :
               i < j => Run(k).frames[i].pos < Run(k).frames[j].pos
        /\ \A i \in 1..Len(Run(k).frames) :
               /\ Cardinality(CalledBy(Run(k), i)) <= 1
               /\ \A j \in CalledBy(Run(k), i) :
                      /\ Run(k).frames[j].pos = Run(k).frames[i].pos + 1
                      /\ Run(k).frames[i].ops # <<>>

\* C36: whatever use, removeMiddleware and clearMiddlewares do while a
\* message is suspended in the pipeline, the message is handed to
\* forwardMessage only when it has passed through exactly the middlewares
\* that were registered when its processing started, in their order, each
\* once; and the calls made so far for a message are the first of those.
C36_RunSeesRegisteredAtStart ==
    \A k \in RunIds :
        /\ Len(Run(k).frames) <= Len(Run(k).registered)
        /\ \A i \in 1..Len(Run(k).frames) :
               Run(k).frames[i].mw = Run(k).registered[i]
        /\ Run(k).root = "handed" =>
               /\ Len(Run(k).frames) = Len(Run(k).registered)
               /\ \A i \in 1..Len(Run(k).frames) : Run(k).frames[i].st = "done"

\* Run r has called the function m: a place that holds m itself, or a
\* wrapper of m whose guard let the message in.
Invoked(r, m) ==
    \E i \in 1..Len(r.frames) :
        Inner(r.frames[i].mw) = m /\ FilterMatches(r.frames[i].mw.filter, r)

\* C37: after removeMiddleware(m), m is called for no message whose
\* processing starts afterwards, however m was registered; the call takes
\* out at most one registration and leaves the others in their order; and a
\* message that comes when clearMiddlewares() has emptied the list is
\* forwarded as it came.
C37_RemovedIsNotInvoked ==
    /\ [](removed # <<>> =>
            \A k \in RunIds : k > removed[2] => ~Invoked(Run(k), removed[1]))
    /\ [](\A k \in RunIds :
            Run(k).registered = <<>> =>
                (Run(k).frames = <<>> /\ Run(k).root = "handed"
                 /\ Run(k).msg = createMessage(Run(k).raw)))
    /\ [][removed' # removed =>
            \/ middlewares' = middlewares
            \/ \E i \in 1..Len(middlewares) : middlewares' = splice(middlewares, i)]_vars

\* C38: with useUpstream(auth(validateToken)) the one middleware, a message
\* of a client is handed to forwardMessage only in the task of its arrival
\* and only when validateToken had returned true for a token of its session
\* before: the auth message, and every message that came while
\* validateToken was pending, is dropped; what reaches an upstream is of an
\* authenticated session; and a session becomes authenticated only by a
\* validateToken that returned true for an auth message of its own.
C38_AuthGate ==
    /\ [][\A k \in 1..Len(runs') :
            (middlewares = <<MwAuth>> /\ Handed(k) /\ runs'[k].dir = UPSTREAM) =>
                (k > Len(runs) /\ runs'[k].sid \in authenticated)]_vars
    /\ [](\A k \in RunIds :
            (middlewares = <<MwAuth>> /\ Run(k).out.to = "upstream") =>
                Run(k).sid \in authenticated)
    /\ [][\A s \in authenticated' \ authenticated :
            \E k \in RunIds :
                /\ Run(k).sid = s /\ Run(k).dir = UPSTREAM
                /\ JSONparse(Run(k).raw).val = AuthObject
                /\ Run(k).root = "pending" /\ runs'[k].root = "dropped"]_vars

\* C39: for every session 'upstream:disconnected' is emitted only after
\* 'upstream:connected' was emitted for it, and 'upstream:connected' is
\* emitted only for a session whose upgrade is accepted.
C39_UpstreamEventsInOrder ==
    \A s \in Sessions :
        /\ \A i \in 1..Len(emitted[s]) :
               emitted[s][i] = "upstream:disconnected" =>
                   \E j \in 1..(i - 1) : emitted[s][j] = "upstream:connected"
        /\ (\E i \in 1..Len(emitted[s]) : emitted[s][i] = "upstream:connected") =>
               upg[s] = "accepted"

\* C40: once an upgrade was rejected on the connect timeout, the upstream
\* connection made for it is closed by the proxy: its socket is closing or
\* closed and is never open, and no message of it is run through the
\* pipeline.
C40_TimedOutUpstreamIsClosed ==
    /\ \A s \in Sessions :
           (upg[s] = "rejected" /\ timer[s] = "fired") =>
               link[s] \in {"closing", "closed"}
    /\ \A k \in RunIds :
           Run(k).dir = DOWNSTREAM => upg[Run(k).sid] # "rejected"

====
